---- MODULE Spec2Model ----
(***************************************************************************)
(* A model of the annotation converters of CVAT_pipeline:                  *)
(*   convert_json_bbox.py    CSV / COCO-keypoints JSON -> CVAT 1.1 XML      *)
(*                           (Spec: main on a .csv or a .json input)       *)
(*   merge_bbox_keypoints.py the keypoint/box merger (SpecMerge)           *)
(*   auto_kpts_bbox.py       keypoints_to_bboxes (SpecBBox); main with     *)
(*                           build_coco_bbox_from_keypoints_json and the   *)
(*                           calls to the CVAT client (SpecAuto)           *)
(*   convert_json_keypoints.py  CSV / JSON -> COCO keypoints JSON or CVAT  *)
(*                           XML (SpecKp)                                  *)
(* SpecConv runs the main of either converter from its first line, the     *)
(* loading of metadata.py.                                                 *)
(*                                                                         *)
(* Numbers.  Coordinates and scores of the converter are Python floats.    *)
(* The model keeps one as an integer number of ten-thousandths (1.0004 is  *)
(* 10004), so that the "%.3f" formatting of flatten_points_xy is a real    *)
(* rounding and not the identity.  Identifiers (frame, instance, class and *)
(* image ids) are integers: ensure_int is applied to integers only.        *)
(*                                                                         *)
(* Inputs.  A reader takes its rows / annotations one at a time from a     *)
(* small set and remembers what it has read (rows, annotations), so that   *)
(* the properties can speak about the input.  An optional JSON key is a    *)
(* record [has, v].  A Python dict is a function; where the code iterates  *)
(* a dict in insertion order (the merger) the keys are kept as a sequence. *)
(***************************************************************************)
EXTENDS Integers, Sequences, FiniteSets, TLC

VARIABLES
    prog,                 \* which program runs: "csv", "json" (convert_json_bbox.main)
    pc,                   \* position of the program
    keypoint_count,       \* len(keypoint_info) of metadata.py
    classes,              \* dataset_info["classes"], a sequence of names
    headers,              \* CSV: the header line, [ids : BOOLEAN, nk : Nat]
    rows,                 \* CSV: the rows read so far, in input order
    images,               \* JSON: obj["images"]
    img_pos,              \* JSON: number of image records processed
    annotations,          \* JSON: the annotations processed so far, in input order
    id_to_frame,          \* parse_json: image id -> frame id
    images_info,          \* parse_json: frame id -> [width, height]
    data,                 \* data[frame_id][instance_id] = list of (x, y, score)
    classes_by_instance,  \* classes_by_instance[instance_id] = set of class ids
    frames_seen,          \* set of frame ids
    xml,                  \* the ElementTree written by main, or NoXml
    video,                \* CSV: args.video as main line 265 reads it
    \* merge_bbox_keypoints.py
    keypoints_data,       \* keypoints_data["annotations"]
    bbox_data,            \* bbox_data["annotations"]
    annotations_by_image, \* the defaultdict: its keys in insertion order, and per key the two lists
    merge_pos,            \* <<index into the keys, index into that key's keypoint list>>
    merged_annotations,
    annotation_id,
    \* auto_kpts_bbox.py, keypoints_to_bboxes
    kb_keypoints,         \* the flat list handed to keypoints_to_bboxes
    kb_bbox,              \* what the call returned: <<>> for None, <<dict>> otherwise
    \* convert_json_keypoints.py
    dataset_info,         \* what load_metadata returned, or NoMetadata
    header,               \* what build_coco_header_from_metadata returned, or NoHeader
    fieldnames,           \* reader.fieldnames of the CSV
    csv_rows,             \* the rows read_csv_annotations has read, in input order
    frame_to_image_id,    \* read_csv_annotations: frame id -> image id
    original,             \* the images and annotations lists read
    output,               \* converted_keypoints.json as written, or NoOutput
    \* auto_kpts_bbox.py, main
    input_ext,            \* os.path.splitext(args.input)[1], as given
    kj_annotations,       \* data["annotations"] of the keypoints JSON, as far as read
    bbox_annotations,     \* build_coco_bbox_from_keypoints_json: the list built
    coco_bbox,            \* the dict written to the temporary file, or none
    import_format,        \* "" for None
    image_paths,          \* the image files found in the folder, by extension
    calls                 \* the calls made on the CVAT client, in order

convVars == <<keypoint_count, classes, headers, rows, images, img_pos,
              annotations, id_to_frame, images_info, data, classes_by_instance,
              frames_seen, xml, video>>
mergeVars == <<keypoints_data, bbox_data, annotations_by_image, merge_pos,
               merged_annotations, annotation_id>>
bboxVars == <<kb_keypoints, kb_bbox>>
kpVars == <<dataset_info, header, fieldnames, csv_rows, frame_to_image_id, original, output>>
autoVars == <<input_ext, kj_annotations, bbox_annotations, coco_bbox, import_format,
              image_paths, calls>>

vars == <<prog, pc, convVars, mergeVars, bboxVars, kpVars, autoVars>>

-----------------------------------------------------------------------------
(* Bounds and input domains *)

\* longest CSV file (rows) the model reads
MaxRows == 3

\* ten-thousandths in one unit: one place more than the three of "%.3f"
Unit == 10 * 1000

EmptyMap == [z \in {} |-> 0]

\* an optional value: a key of a JSON object that may be missing, an Optional[int]
Absent == [has |-> FALSE, v |-> 0]
Has(v) == [has |-> TRUE, v |-> v]
AbsentList == [has |-> FALSE, v |-> <<>>]
NoXml == [none |-> TRUE]
NoHeaders == [ids |-> FALSE, nk |-> 0]
NoGroups == [order |-> <<>>, keypoints |-> EmptyMap, bboxes |-> EmptyMap]
\* --video: not given; a video that opens, 1280 x 720; a path that does not open
NoVideo == [given |-> FALSE, opens |-> FALSE, width |-> 0, height |-> 0]
VideoArgs == {NoVideo,
              [given |-> TRUE, opens |-> TRUE, width |-> 1280, height |-> 720],
              [given |-> TRUE, opens |-> FALSE, width |-> 0, height |-> 0]}
NoMetadata == [loaded |-> FALSE, keypoint_info |-> EmptyMap, skeleton_info |-> EmptyMap,
               classes |-> <<>>]
NoHeader == [built |-> FALSE, keypoints |-> <<>>, skeleton |-> <<>>, name |-> ""]
NoFieldnames == [ids |-> FALSE, cols |-> {}]
NoOriginal == [images |-> AbsentList, annotations |-> AbsentList]
NoOutput == [format |-> "none", categories |-> <<>>, images |-> <<>>,
             annotations |-> <<>>, tracks |-> <<>>]
NoCocoBBox == [written |-> FALSE, category |-> <<>>, annotations |-> <<>>]

\* the variables of the programs that do not run
ConvIdle ==
    /\ keypoint_count = 0 /\ classes = <<>> /\ headers = NoHeaders /\ rows = <<>>
    /\ images = <<>> /\ img_pos = 0 /\ annotations = <<>>
    /\ id_to_frame = EmptyMap /\ images_info = EmptyMap
    /\ data = EmptyMap /\ classes_by_instance = EmptyMap /\ frames_seen = {}
    /\ xml = NoXml /\ video = NoVideo
MergeIdle ==
    /\ keypoints_data = <<>> /\ bbox_data = <<>> /\ annotations_by_image = NoGroups
    /\ merge_pos = <<0, 0>> /\ merged_annotations = <<>> /\ annotation_id = 0
BBoxIdle == kb_keypoints = <<>> /\ kb_bbox = <<>>
KpIdle ==
    /\ dataset_info = NoMetadata /\ header = NoHeader /\ fieldnames = NoFieldnames
    /\ csv_rows = <<>> /\ frame_to_image_id = EmptyMap /\ original = NoOriginal
    /\ output = NoOutput
AutoIdle ==
    /\ input_ext = "" /\ kj_annotations = <<>> /\ bbox_annotations = <<>>
    /\ coco_bbox = NoCocoBBox /\ import_format = "" /\ image_paths = <<>> /\ calls = <<>>

\* CSV runs: <<keypoint_count of the metadata, number of x/y/score column triples
\* in the CSV header, dataset_info["classes"]>>.  A header with no keypoint
\* column is that of a box-mode file: its columns are the ids and cx, cy, w, h.
CsvSetups == {<<2, 2, <<"cat", "dog">>>>, <<2, 1, <<"cat">>>>, <<1, 2, <<"cat", "dog">>>>,
              <<2, 0, <<"cat", "dog">>>>}

FrameIds == {0, 2}
InstanceIds == {1, 2}
ClassIds == {0, 1}

\* A CSV cell: a numeric string (v ten-thousandths), the empty string, or text
\* that float() rejects.
Num(v) == [k |-> "num", v |-> v]
EmptyCell == [k |-> "empty", v |-> 0]
BadCell == [k |-> "bad", v |-> 0]

\* The x{j}, y{j}, score{j} cells of a row, j = 0 .. nk-1, in three patterns:
\* numbers; numbers and an empty cell; a cell that is no number.
CsvTriple(p, j) ==
    CASE p = "A" -> <<Num(Unit * (j + 1) + 4), Num(2 * Unit), Num(9000)>>
      [] p = "B" -> <<Num(3 * Unit + 6), EmptyCell, Num(0)>>
      [] OTHER   -> <<Num(Unit), BadCell, Num(Unit)>>

\* the cx, cy, w, h cells of a row of a box-mode file: 10, 10, 4, 2
BoxCells == <<10 * Unit, 10 * Unit, 4 * Unit, 2 * Unit>>

\* The rows a file may hold.  To keep the state space small the cells of a
\* parsable row follow its class: pattern A for class 0, pattern B otherwise.
\* box holds the cx, cy, w, h cells; a keypoint-mode file has none.
CsvRows(nk) ==
    { [frame_id |-> f, class_id |-> c, instance_id |-> i,
       kp |-> [j \in 1..nk |-> CsvTriple(IF bad THEN "X" ELSE IF c = 0 THEN "A" ELSE "B", j - 1)],
       box |-> IF nk = 0 THEN BoxCells ELSE <<>>] :
        f \in FrameIds, c \in ClassIds, i \in InstanceIds, bad \in BOOLEAN }

-----------------------------------------------------------------------------
(* Helpers of convert_json_bbox.py *)

RECURSIVE SortedSeq(_)
\* sorted(S) for a finite set of integers
SortedSeq(S) ==
    IF S = {} THEN <<>>
    ELSE LET m == CHOOSE x \in S : \A y \in S : x <= y
         IN  <<m>> \o SortedSeq(S \ {m})

\* "%.2f" % x, in thousandths
Fmt2(x) == 10 * (IF x >= 0 THEN (x + 50) \div 100 ELSE -((50 - x) \div 100))

\* "%.3f" % x : x in ten-thousandths, the result in thousandths.  Exact decimal
\* ties (a last digit 5) are rounded by Python on the binary value of the float;
\* the model's inputs hold none.
Fmt3(x) == IF x >= 0 THEN (x + 5) \div 10 ELSE -((5 - x) \div 10)

\* flatten_points_xy with two decimals, as convert_json_keypoints.py formats
flatten_points_xy_2f(pairs) ==
    [j \in 1..Len(pairs) |-> <<Fmt2(pairs[j][1]), Fmt2(pairs[j][2])>>]

\* flatten_points_xy: 'x0,y0;x1,y1;...' as the sequence of formatted pairs
flatten_points_xy(pairs) ==
    [j \in 1..Len(pairs) |-> <<Fmt3(pairs[j][1]), Fmt3(pairs[j][2])>>]

\* float(row.get(f"x{i}", 0) or 0): a missing column and an empty cell read as 0.0
CellPresent(row, j) == j <= Len(row.kp)
CellBad(row, j, c) == CellPresent(row, j) /\ row.kp[j][c].k = "bad"
\* a cell the header lacks is taken from the cx, cy, w, h cells of the row
CellFloatBox(row, j, c) ==
    IF CellPresent(row, j) /\ row.kp[j][c].k = "num" THEN row.kp[j][c].v
    ELSE IF ~CellPresent(row, j) /\ row.box # <<>> THEN row.box[c]
    ELSE 0

CellFloat(row, j, c) ==
    IF CellPresent(row, j) /\ row.kp[j][c].k = "num" THEN row.kp[j][c].v ELSE 0

\* the loop of parse_csv lines 102-107 raises ValueError on an unparsable cell
RowRaises(row, k) == \E j \in 1..k : \E c \in 1..3 : CellBad(row, j, c)

\* the loop run over the keypoint columns of the header instead of range(keypoint_count)
RowPtsPresent(row, k) ==
    [j \in 1..(IF Len(row.kp) < k THEN Len(row.kp) ELSE k) |->
        <<CellFloat(row, j, 1), CellFloat(row, j, 2), CellFloat(row, j, 3)>>]

\* lines 102-107
RowPts(row, k) ==
    [j \in 1..k |-> <<CellFloat(row, j, 1), CellFloat(row, j, 2), CellFloat(row, j, 3)>>]

\* data[frame_id].setdefault(instance_id, pts): the first write stays
StoreFirst(d, f, i, pts) ==
    LET old == IF f \in DOMAIN d THEN d[f] ELSE EmptyMap
        new == [x \in DOMAIN old \cup {i} |-> IF x \in DOMAIN old THEN old[x] ELSE pts]
    IN  [g \in DOMAIN d \cup {f} |-> IF g = f THEN new ELSE d[g]]

\* the entry left out when its geometry is all zero
StoreGeometry(d, f, i, pts) ==
    LET old == IF f \in DOMAIN d THEN d[f] ELSE EmptyMap
        new == [x \in DOMAIN old \cup {i} |-> IF x = i THEN pts ELSE old[x]]
    IN  IF \A j \in 1..Len(pts) : pts[j] = <<0, 0, 0>> THEN d
        ELSE [g \in DOMAIN d \cup {f} |-> IF g = f THEN new ELSE d[g]]

\* data[frame_id][instance_id] = pts   (data is a defaultdict(dict))
Store(d, f, i, pts) ==
    LET old == IF f \in DOMAIN d THEN d[f] ELSE EmptyMap
        new == [x \in DOMAIN old \cup {i} |-> IF x = i THEN pts ELSE old[x]]
    IN  [g \in DOMAIN d \cup {f} |-> IF g = f THEN new ELSE d[g]]

\* the class set replaced by the class of the row that wrote the geometry last
AddClassReplace(cbi, i, c) ==
    [x \in DOMAIN cbi \cup {i} |-> IF x = i THEN {c} ELSE cbi[x]]

\* classes_by_instance[instance_id].add(class_id)
AddClass(cbi, i, c) ==
    [x \in DOMAIN cbi \cup {i} |->
        IF x = i THEN (IF i \in DOMAIN cbi THEN cbi[i] ELSE {}) \cup {c} ELSE cbi[x]]

-----------------------------------------------------------------------------
(* build_cvat_xml *)

\* class_id_to_name = {i: c for i, c in enumerate(classes)}
ClassIdToName(cls, default, c) ==
    IF c + 1 \in DOMAIN cls /\ c >= 0 THEN cls[c + 1] ELSE default

\* the label taken from the largest class id, class_ids[-1]
TrackLabelLargest(cbi, cls, instance_id) ==
    LET class_ids == SortedSeq(IF instance_id \in DOMAIN cbi THEN cbi[instance_id] ELSE {0})
    IN  ClassIdToName(cls, ClassIdToName(cls, "object", 0), class_ids[Len(class_ids)])

\* lines 204-205: the label of a track
TrackLabel(cbi, cls, instance_id) ==
    LET class_ids == SortedSeq(IF instance_id \in DOMAIN cbi THEN cbi[instance_id] ELSE {0})
    IN  ClassIdToName(cls, ClassIdToName(cls, "object", 0), class_ids[1])

RECURSIVE TrackPoints(_, _, _)
\* lines 210-225: one <points> per frame of frames_sorted that holds the instance
TrackPoints(d, frames_sorted, instance_id) ==
    IF frames_sorted = <<>> THEN <<>>
    ELSE LET frame_id == Head(frames_sorted)
             rest == TrackPoints(d, Tail(frames_sorted), instance_id)
             frame_map == IF frame_id \in DOMAIN d THEN d[frame_id] ELSE EmptyMap
         IN  IF instance_id \notin DOMAIN frame_map THEN rest
             ELSE <<[frame |-> frame_id,
                     points |-> flatten_points_xy(frame_map[instance_id])]>> \o rest

\* sorted(frames_seen, reverse=True)
FramesSortedDesc(seen) ==
    LET up == SortedSeq(seen) IN [n \in 1..Len(up) |-> up[Len(up) + 1 - n]]

\* main lines 263 and 269: frames_sorted = sorted(frames_seen)
FramesSorted(seen) == SortedSeq(seen)

\* line 202
TrackInstanceIds(d) == SortedSeq(UNION {DOMAIN d[f] : f \in DOMAIN d})

build_cvat_xml(d, cbi, cls, frames_sorted, width, height) ==
    LET instance_ids == TrackInstanceIds(d)
    IN  [original_size |-> IF width.has /\ height.has
                           THEN <<[width |-> width.v, height |-> height.v]>> ELSE <<>>,
         tracks |-> [t \in 1..Len(instance_ids) |->
                        [id |-> instance_ids[t],
                         label |-> TrackLabel(cbi, cls, instance_ids[t]),
                         points |-> TrackPoints(d, frames_sorted, instance_ids[t])]]]

-----------------------------------------------------------------------------
(* parse_csv, one row of the loop at lines 95-108 *)

CsvUnchanged ==
    UNCHANGED <<images, img_pos, annotations, id_to_frame, images_info, video,
                mergeVars, bboxVars, kpVars, autoVars>>

\* row["frame_id"] on a header without the id columns: KeyError
CsvRowKeyError ==
    /\ prog = "csv" /\ pc = "rows"
    /\ Len(rows) < MaxRows
    /\ ~headers.ids
    /\ pc' = "error"
    /\ UNCHANGED <<prog, keypoint_count, classes, headers, rows, data,
                   classes_by_instance, frames_seen, xml>>
    /\ CsvUnchanged

\* the ValueError caught around the loop, and the rows read so far written out
CsvRowValueErrorFlush ==
    /\ prog = "csv" /\ pc = "rows"
    /\ Len(rows) < MaxRows
    /\ headers.ids
    /\ \E row \in CsvRows(headers.nk) :
          /\ RowRaises(row, keypoint_count)
          /\ frames_seen' = frames_seen \cup {row.frame_id}
          /\ classes_by_instance' = AddClass(classes_by_instance, row.instance_id, row.class_id)
    /\ xml' = build_cvat_xml(data, classes_by_instance, classes,
                             FramesSorted(frames_seen), Absent, Absent)
    /\ pc' = "error"
    /\ UNCHANGED <<prog, keypoint_count, classes, headers, rows, data>>
    /\ UNCHANGED <<images, img_pos, annotations, id_to_frame, images_info, video,
                   mergeVars, bboxVars, kpVars, autoVars>>

\* float() of an unparsable cell: ValueError, after lines 99-100 have run
CsvRowValueError ==
    /\ prog = "csv" /\ pc = "rows"
    /\ Len(rows) < MaxRows
    /\ headers.ids
    /\ \E row \in CsvRows(headers.nk) :
          /\ RowRaises(row, keypoint_count)
          /\ frames_seen' = frames_seen \cup {row.frame_id}
          /\ classes_by_instance' = AddClass(classes_by_instance, row.instance_id, row.class_id)
    /\ pc' = "error"
    /\ UNCHANGED <<prog, keypoint_count, classes, headers, rows, data, xml>>
    /\ CsvUnchanged

\* classes_by_instance[instance_id] = {class_id}: the last class stays
CsvRowStepLastClass(st, row, k) ==
    [data |-> Store(st.data, row.frame_id, row.instance_id, RowPts(row, k)),
     classes_by_instance |->
         [x \in DOMAIN st.classes_by_instance \cup {row.instance_id} |->
             IF x = row.instance_id THEN {row.class_id} ELSE st.classes_by_instance[x]],
     frames_seen |-> st.frames_seen \cup {row.frame_id}]

\* lines 96-108 on a row all of whose cells parse: the three results after the row
CsvRowStep(st, row, k) ==
    [data |-> Store(st.data, row.frame_id, row.instance_id, RowPts(row, k)),
     classes_by_instance |-> AddClass(st.classes_by_instance, row.instance_id, row.class_id),
     frames_seen |-> st.frames_seen \cup {row.frame_id}]

CsvRow ==
    /\ prog = "csv" /\ pc = "rows"
    /\ Len(rows) < MaxRows
    /\ headers.ids
    /\ \E row \in CsvRows(headers.nk) :
          /\ ~RowRaises(row, keypoint_count)
          /\ rows' = Append(rows, row)
          /\ LET st == CsvRowStep([data |-> data,
                                   classes_by_instance |-> classes_by_instance,
                                   frames_seen |-> frames_seen], row, keypoint_count)
             IN  /\ frames_seen' = st.frames_seen
                 /\ classes_by_instance' = st.classes_by_instance
                 /\ data' = st.data
    /\ UNCHANGED <<prog, pc, keypoint_count, classes, headers, xml>>
    /\ CsvUnchanged

\* main lines 258-266: width and height stay None unless --video is given
CsvResolution(v) ==
    IF v.given THEN <<Has(v.width), Has(v.height)>> ELSE <<Absent, Absent>>

\* end of file: parse_csv returns, and read_video_resolution raises IOError
CsvVideoError ==
    /\ prog = "csv" /\ pc = "rows"
    /\ video.given /\ ~video.opens
    /\ pc' = "error"
    /\ UNCHANGED <<prog, keypoint_count, classes, headers, rows, data,
                   classes_by_instance, frames_seen, xml>>
    /\ CsvUnchanged

\* end of file: parse_csv returns; main lines 263-266 and 277-286
CsvFinish ==
    /\ prog = "csv" /\ pc = "rows"
    /\ video.given => video.opens
    /\ LET wh == CsvResolution(video)
       IN  xml' = build_cvat_xml(data, classes_by_instance, classes,
                                 FramesSorted(frames_seen), wh[1], wh[2])
    /\ pc' = "done"
    /\ UNCHANGED <<prog, keypoint_count, classes, headers, rows, data,
                   classes_by_instance, frames_seen>>
    /\ CsvUnchanged

InitCsv ==
    /\ prog = "csv" /\ pc = "rows"
    /\ \E s \in CsvSetups :
          /\ keypoint_count = s[1]
          /\ headers \in {[ids |-> TRUE, nk |-> s[2]], [ids |-> FALSE, nk |-> s[2]]}
          /\ classes = s[3]
    /\ rows = <<>>
    /\ images = <<>> /\ img_pos = 0 /\ annotations = <<>>
    /\ id_to_frame = EmptyMap /\ images_info = EmptyMap
    /\ data = EmptyMap /\ classes_by_instance = EmptyMap /\ frames_seen = {}
    /\ xml = NoXml
    /\ video \in {v \in VideoArgs : v.given => v.opens}
    /\ MergeIdle /\ BBoxIdle /\ KpIdle /\ AutoIdle

NextCsv == CsvRowKeyError \/ CsvRowValueError \/ CsvRow \/ CsvFinish

-----------------------------------------------------------------------------
(* parse_json *)

\* longest annotations list the model reads
MaxAnns == 2

\* image records: every field but id is optional
Image(id, frame_id, frame_index, width, height) ==
    [id |-> id, frame_id |-> frame_id, frame_index |-> frame_index,
     width |-> width, height |-> height]
ImA == Image(1, Has(5), Has(7), Has(640), Has(480))
ImB == Image(2, Absent, Has(0), Absent, Absent)
ImC == Image(2, Absent, Absent, Has(320), Has(240))
ImD == Image(1, Absent, Absent, Absent, Absent)

\* JSON runs: <<keypoint_count, dataset_info["classes"], obj["images"]>>
JsonSetups == {<<2, <<"cat", "dog">>, <<ImA, ImB>>>>,
               <<1, <<"cat">>, <<ImC>>>>,
               <<2, <<"cat", "dog">>, <<ImD, ImA>>>>}

\* the identity keys of an annotation: <<track_id, instance_id, id>>
Identities == {<<Has(7), Has(8), Has(9)>>, <<Has(7), Absent, Has(4)>>,
               <<Absent, Has(8), Has(7)>>, <<Absent, Absent, Has(8)>>}

\* flat COCO keypoint lists: one triple and a stray value; two triples and a
\* stray value; the key may also be absent
KpShort == <<Unit + 4, 2 * Unit, Unit, 5 * Unit>>
KpLong == <<3 * Unit + 6, 4 * Unit, 2 * Unit, 5 * Unit, 6 * Unit, 0, 7 * Unit>>
KeypointLists == {AbsentList, Has(KpShort), Has(KpLong)}
\* a list that ends before its first triple is complete
KpStub == <<Unit, 2 * Unit>>

Ann(image_id, ident, category_id, keypoints) ==
    [image_id |-> image_id, track_id |-> ident[1], instance_id |-> ident[2],
     id |-> ident[3], category_id |-> category_id, keypoints |-> keypoints]

\* The annotations a file may hold.  To keep the state space small the category
\* of an annotation follows its keypoint list: none without keypoints, 1 with
\* the short list, 0 with the long one.
CategoryFor(kp) == IF ~kp.has THEN Absent ELSE IF kp.v = KpShort THEN Has(1) ELSE Has(0)

JsonAnns ==
    { Ann(Has(im), ident, CategoryFor(kp), kp) :
        im \in {1, 2}, ident \in Identities, kp \in KeypointLists }
    \cup { Ann(Has(im), <<Absent, Absent, Absent>>, Has(1), AbsentList) : im \in {1, 2} }
    \cup { Ann(Has(im), <<Absent, Absent, Has(8)>>, Has(1), Has(KpStub)) : im \in {1, 2} }

\* an annotation without image_id: ann["image_id"] raises KeyError
AnnNoImage == Ann(Absent, <<Absent, Absent, Has(3)>>, Has(1), Has(KpShort))

Min(a, b) == IF a <= b THEN a ELSE b

\* coco_keypoints_to_pairs without the padding loop
coco_keypoints_to_pairs_nopad(kpts, k) ==
    [j \in 1..Min(Len(kpts) \div 3, k) |->
        <<kpts[3 * (j - 1) + 1], kpts[3 * (j - 1) + 2], kpts[3 * (j - 1) + 3]>>]

\* coco_keypoints_to_pairs: the first min(len // 3, k) triples, zero-padded to k
coco_keypoints_to_pairs(kpts, k) ==
    LET n == Min(Len(kpts) \div 3, k)
    IN  [j \in 1..k |->
            IF j <= n THEN <<kpts[3 * (j - 1) + 1], kpts[3 * (j - 1) + 2], kpts[3 * (j - 1) + 3]>>
            ELSE <<0, 0, 0>>]

\* frame_index preferred to frame_id
ImageFrameIdIndexFirst(im) ==
    IF im.frame_index.has THEN im.frame_index.v
    ELSE IF im.frame_id.has THEN im.frame_id.v
    ELSE im.id

\* lines 131-136: the frame id of an image record
ImageFrameId(im) ==
    IF im.frame_id.has THEN im.frame_id.v
    ELSE IF im.frame_index.has THEN im.frame_index.v
    ELSE im.id

\* lines 137-138 and 140: ImageInfo(frame_id, w, h), width and height default 0
ImageInfoOf(im) ==
    [width |-> IF im.width.has THEN im.width.v ELSE 0,
     height |-> IF im.height.has THEN im.height.v ELSE 0]

Put(m, key, val) == [x \in DOMAIN m \cup {key} |-> IF x = key THEN val ELSE m[x]]

\* line 150: id_to_frame.get(img_id, img_id)
AnnFrameId(tbl, ann) ==
    IF ann.image_id.v \in DOMAIN tbl THEN tbl[ann.image_id.v] ELSE ann.image_id.v

\* the precedence reversed: id, else instance_id, else track_id
AnnInstanceIdIdFirst(ann) ==
    IF ann.id.has THEN ann.id.v
    ELSE IF ann.instance_id.has THEN ann.instance_id.v
    ELSE IF ann.track_id.has THEN ann.track_id.v ELSE 0

\* lines 154-159
AnnInstanceId(ann) ==
    IF ann.track_id.has THEN ann.track_id.v
    ELSE IF ann.instance_id.has THEN ann.instance_id.v
    ELSE IF ann.id.has THEN ann.id.v ELSE 0

\* line 161: ann.get("category_id", 0)
AnnCategoryId(ann) == IF ann.category_id.has THEN ann.category_id.v ELSE 0

\* lines 164-165: ann.get("keypoints", [])
AnnPts(ann, k) ==
    coco_keypoints_to_pairs(IF ann.keypoints.has THEN ann.keypoints.v ELSE <<>>, k)

JsonUnchanged == UNCHANGED <<headers, rows, video, mergeVars, bboxVars, kpVars, autoVars>>

\* one pass of the loop at lines 130-140
JsonImage ==
    /\ prog = "json" /\ pc = "images"
    /\ img_pos < Len(images)
    /\ LET im == images[img_pos + 1]
       IN  /\ id_to_frame' = Put(id_to_frame, im.id, ImageFrameId(im))
           /\ images_info' = Put(images_info, ImageFrameId(im), ImageInfoOf(im))
    /\ img_pos' = img_pos + 1
    /\ UNCHANGED <<prog, pc, keypoint_count, classes, images, annotations, data,
                   classes_by_instance, frames_seen, xml>>
    /\ JsonUnchanged

\* one pass of the loop at lines 148-166
JsonAnn ==
    /\ prog = "json" /\ pc = "images"
    /\ img_pos = Len(images)
    /\ Len(annotations) < MaxAnns
    /\ \E ann \in JsonAnns :
          LET frame_id == AnnFrameId(id_to_frame, ann)
              instance_id == AnnInstanceId(ann)
          IN  /\ annotations' = Append(annotations, ann)
              /\ frames_seen' = frames_seen \cup {frame_id}
              /\ classes_by_instance' =
                     AddClass(classes_by_instance, instance_id, AnnCategoryId(ann))
              /\ data' = Store(data, frame_id, instance_id, AnnPts(ann, keypoint_count))
    /\ UNCHANGED <<prog, pc, keypoint_count, classes, images, img_pos, id_to_frame,
                   images_info, xml>>
    /\ JsonUnchanged

\* ann["image_id"] on an annotation without the key: KeyError
JsonAnnKeyError ==
    /\ prog = "json" /\ pc = "images"
    /\ img_pos = Len(images)
    /\ Len(annotations) < MaxAnns
    /\ ~AnnNoImage.image_id.has
    /\ pc' = "error"
    /\ UNCHANGED <<prog, keypoint_count, classes, images, img_pos, annotations,
                   id_to_frame, images_info, data, classes_by_instance, frames_seen, xml>>
    /\ JsonUnchanged

\* main lines 269-275: the resolution of the first frame seen
JsonResolution(info, seen) ==
    LET frames_sorted == FramesSorted(seen)
    IN  IF frames_sorted # <<>> /\ frames_sorted[1] \in DOMAIN info
        THEN <<Has(info[frames_sorted[1]].width), Has(info[frames_sorted[1]].height)>>
        ELSE <<Absent, Absent>>

\* end of the annotations: parse_json returns; main lines 269-286
JsonFinish ==
    /\ prog = "json" /\ pc = "images"
    /\ img_pos = Len(images)
    /\ LET wh == JsonResolution(images_info, frames_seen)
       IN  xml' = build_cvat_xml(data, classes_by_instance, classes,
                                 FramesSorted(frames_seen), wh[1], wh[2])
    /\ pc' = "done"
    /\ UNCHANGED <<prog, keypoint_count, classes, images, img_pos, annotations,
                   id_to_frame, images_info, data, classes_by_instance, frames_seen>>
    /\ JsonUnchanged

InitJson ==
    /\ prog = "json" /\ pc = "images"
    /\ \E s \in JsonSetups :
          /\ keypoint_count = s[1]
          /\ classes = s[2]
          /\ images = s[3]
    /\ headers = NoHeaders /\ rows = <<>>
    /\ img_pos = 0 /\ annotations = <<>>
    /\ id_to_frame = EmptyMap /\ images_info = EmptyMap
    /\ data = EmptyMap /\ classes_by_instance = EmptyMap /\ frames_seen = {}
    /\ xml = NoXml /\ video = NoVideo
    /\ MergeIdle /\ BBoxIdle /\ KpIdle /\ AutoIdle

NextJson == JsonImage \/ JsonAnn \/ JsonAnnKeyError \/ JsonFinish

\* convert_json_bbox.main on a .csv or a .json input
Init == InitCsv \/ InitJson
Next == NextCsv \/ NextJson
Spec == Init /\ [][Next]_vars

-----------------------------------------------------------------------------
(* What the run has read, one observation per row or annotation stored *)

\* the (frame, instance, class, geometry) of the n-th row or annotation, as the
\* reader resolves them
Obs(n) ==
    IF prog = "csv"
    THEN [frame |-> rows[n].frame_id, instance |-> rows[n].instance_id,
          class |-> rows[n].class_id, pts |-> RowPts(rows[n], keypoint_count)]
    ELSE [frame |-> AnnFrameId(id_to_frame, annotations[n]),
          instance |-> AnnInstanceId(annotations[n]),
          class |-> AnnCategoryId(annotations[n]),
          pts |-> AnnPts(annotations[n], keypoint_count)]
NObs == IF prog = "csv" THEN Len(rows) ELSE Len(annotations)

\* how many rows / annotations of instance i carry class c
Seen(i, c) == Cardinality({n \in 1..NObs : Obs(n).instance = i /\ Obs(n).class = c})
ClassesOf(i) == {Obs(n).class : n \in {m \in 1..NObs : Obs(m).instance = i}}

\* the display name of class c: its entry in the metadata class list, else the
\* name of class 0, else "object"
NameOf(c) ==
    IF c >= 0 /\ c < Len(classes) THEN classes[c + 1]
    ELSE IF Len(classes) > 0 THEN classes[1] ELSE "object"

Tracks == {xml.tracks[t] : t \in 1..Len(xml.tracks)}

\* the most frequent class of instance i, ties to the smallest id
MajorityClass(i) ==
    CHOOSE c \in ClassesOf(i) :
        \A d \in ClassesOf(i) : Seen(i, c) > Seen(i, d) \/ (Seen(i, c) = Seen(i, d) /\ c <= d)

\* C2 as stated: the label of every track is the name of the class observed most
\* often for its instance, ties broken by the smallest class id.
C2_MajorityLabel ==
    pc = "done" => \A t \in Tracks : t.label = NameOf(MajorityClass(t.id))

\* C2 amended: the label of every track is the name of the smallest class id
\* observed for its instance, however often each class was observed.
C2_SmallestClassLabel ==
    pc = "done" =>
        \A t \in Tracks :
            /\ ClassesOf(t.id) # {}
            /\ \E c \in ClassesOf(t.id) :
                  /\ \A d \in ClassesOf(t.id) : c <= d
                  /\ t.label = NameOf(c)

\* An instance seen twice as class 1 and once as class 0 is labelled with class 0.
C2_Witness ==
    /\ pc = "done" /\ classes = <<"cat", "dog">>
    /\ \E t \in Tracks : Seen(t.id, 1) = 2 /\ Seen(t.id, 0) = 1 /\ t.label = "cat"

\* C3: in every track the <points> elements have strictly increasing frames, and
\* the frames listed are exactly the frames f with the instance in data[f].
C3_KeyframeOrder ==
    pc = "done" =>
        \A t \in Tracks :
            /\ \A a, b \in 1..Len(t.points) : a < b => t.points[a].frame < t.points[b].frame
            /\ {t.points[a].frame : a \in 1..Len(t.points)}
                   = {f \in DOMAIN data : t.id \in DOMAIN data[f]}

\* A track whose two keyframes were read in descending frame order, beside a frame
\* of another instance in which the track has no element.
C3_Witness ==
    /\ pc = "done" /\ NObs = 3
    /\ \E t \in Tracks :
          /\ Len(t.points) = 2
          /\ Obs(1).instance = t.id /\ Obs(2).instance = t.id
          /\ Obs(1).frame > Obs(2).frame
    /\ \E u \in Tracks : \E f \in frames_seen : f \notin {u.points[a].frame : a \in 1..Len(u.points)}

-----------------------------------------------------------------------------
(* The XML read back: (frame attribute, track id) -> list of (x, y).  A points
   attribute holds decimals with three places; read as floats they are
   multiples of 0.001, ten ten-thousandths each. *)

XmlKeys ==
    UNION {{<<t.points[a].frame, t.id>> : a \in 1..Len(t.points)} : t \in Tracks}
XmlPairs(f, i) ==
    LET t == CHOOSE u \in Tracks : u.id = i
        a == CHOOSE b \in 1..Len(t.points) : t.points[b].frame = f
    IN  [j \in 1..Len(t.points[a].points) |->
            <<10 * t.points[a].points[j][1], 10 * t.points[a].points[j][2]>>]
DataKeys == UNION {{<<f, i>> : i \in DOMAIN data[f]} : f \in DOMAIN data}
NPoints == LET lens == {Len(t.points) : t \in Tracks}
           IN  IF lens = {} THEN 0 ELSE Cardinality(UNION {{<<t.id, a>> : a \in 1..Len(t.points)} : t \in Tracks})

\* r is x rounded to three decimals (x is no exact tie)
IsRound3(r, x) == r % 10 = 0 /\ r - x \in -4..4

\* C4 as stated: the XML read back has the key set of the parsed model, and every
\* element carries its entry's (x, y) pairs.
C4_RoundTripExact ==
    (prog = "json" /\ pc = "done") =>
        /\ XmlKeys = DataKeys
        /\ \A key \in XmlKeys :
              LET got == XmlPairs(key[1], key[2])
                  pts == data[key[1]][key[2]]
              IN  /\ Len(got) = Len(pts)
                  /\ \A j \in 1..Len(pts) : got[j] = <<pts[j][1], pts[j][2]>>

\* C4 amended: the XML read back has the key set of the parsed model, one element
\* per (frame, instance) entry under the track of that instance, frames ascending
\* within each track, and every element carries its entry's (x, y) pairs in
\* keypoint order, each coordinate rounded to three decimals.
C4_RoundTripRounded ==
    (prog = "json" /\ pc = "done") =>
        /\ XmlKeys = DataKeys
        /\ NPoints = Cardinality(DataKeys)
        /\ \A t \in Tracks : \A a, b \in 1..Len(t.points) :
              a < b => t.points[a].frame < t.points[b].frame
        /\ \A key \in XmlKeys :
              LET got == XmlPairs(key[1], key[2])
                  pts == data[key[1]][key[2]]
              IN  /\ Len(got) = Len(pts)
                  /\ \A j \in 1..Len(pts) :
                        IsRound3(got[j][1], pts[j][1]) /\ IsRound3(got[j][2], pts[j][2])

\* Two entries in two frames, one holding x = 3.0006, which the XML carries as 3.001.
C4_Witness ==
    /\ prog = "json" /\ pc = "done" /\ Cardinality(DataKeys) = 2 /\ Cardinality(DOMAIN data) = 2
    /\ \E key \in XmlKeys :
          /\ data[key[1]][key[2]][1][1] = 3 * Unit + 6
          /\ XmlPairs(key[1], key[2])[1][1] = 3 * Unit + 10

-----------------------------------------------------------------------------
(* parse_json: identity and frame resolution *)

\* C5: every annotation is stored under its track_id if it has one, else its
\* instance_id if it has one, else its id, else 0; and nothing is stored under
\* any other instance id.
C5_InstancePrecedence ==
    prog = "json" =>
        /\ \A n \in 1..Len(annotations) :
              LET ann == annotations[n]
                  want == IF ann.track_id.has THEN ann.track_id.v
                          ELSE IF ann.instance_id.has THEN ann.instance_id.v
                          ELSE IF ann.id.has THEN ann.id.v ELSE 0
              IN  /\ want \in DOMAIN classes_by_instance
                  /\ AnnCategoryId(ann) \in classes_by_instance[want]
                  /\ AnnFrameId(id_to_frame, ann) \in DOMAIN data
                  /\ want \in DOMAIN data[AnnFrameId(id_to_frame, ann)]
        /\ \A key \in DataKeys : \E n \in 1..Len(annotations) :
              LET ann == annotations[n]
              IN  key[2] = (IF ann.track_id.has THEN ann.track_id.v
                            ELSE IF ann.instance_id.has THEN ann.instance_id.v
                            ELSE IF ann.id.has THEN ann.id.v ELSE 0)

\* Two annotations with track_id 7 and ids 9 and 4, in two frames, make one track.
C5_Witness ==
    /\ prog = "json" /\ pc = "done" /\ Len(annotations) = 2
    /\ annotations[1].track_id = Has(7) /\ annotations[2].track_id = Has(7)
    /\ annotations[1].id = Has(9) /\ annotations[2].id = Has(4)
    /\ annotations[1].instance_id = Has(8)
    /\ Len(xml.tracks) = 1 /\ xml.tracks[1].id = 7 /\ Len(xml.tracks[1].points) = 2

\* the last image record with id x, if any
LastImage(x) ==
    LET at == {n \in 1..Len(images) : images[n].id = x}
    IN  images[CHOOSE n \in at : \A m \in at : m <= n]

\* C6: once the image records are read, the table maps every image id to the
\* frame_id of its record if present, else its frame_index if present, else the
\* id; every annotation is stored under the frame its image_id maps to, or under
\* the image_id itself when no image record has that id.
C6_FrameTable ==
    (prog = "json" /\ img_pos = Len(images)) =>
        /\ DOMAIN id_to_frame = {images[n].id : n \in 1..Len(images)}
        /\ \A x \in DOMAIN id_to_frame :
              LET im == LastImage(x)
              IN  id_to_frame[x] = (IF im.frame_id.has THEN im.frame_id.v
                                    ELSE IF im.frame_index.has THEN im.frame_index.v
                                    ELSE im.id)
        /\ \A n \in 1..Len(annotations) :
              LET x == annotations[n].image_id.v
                  f == IF \E m \in 1..Len(images) : images[m].id = x
                       THEN id_to_frame[x] ELSE x
              IN  /\ f \in frames_seen
                  /\ f \in DOMAIN data
                  /\ AnnInstanceId(annotations[n]) \in DOMAIN data[f]
        /\ \A f \in DOMAIN data : \E n \in 1..Len(annotations) :
              LET x == annotations[n].image_id.v
              IN  f = (IF \E m \in 1..Len(images) : images[m].id = x
                       THEN id_to_frame[x] ELSE x)

\* An image record with frame_id 5 and frame_index 7 whose annotation is stored
\* under frame 5, beside an annotation of an image id without a record.
C6_Witness ==
    /\ prog = "json" /\ pc = "done" /\ Len(annotations) = 2
    /\ \E m \in 1..Len(images) :
          /\ images[m].id = 1 /\ images[m].frame_id = Has(5) /\ images[m].frame_index = Has(7)
    /\ annotations[1].image_id.v = 1 /\ annotations[2].image_id.v = 2
    /\ ~ \E m \in 1..Len(images) : images[m].id = 2
    /\ DOMAIN data = {5, 2}

-----------------------------------------------------------------------------
(* Fixed length, last write wins, row order *)

\* the last row / annotation stored under (f, i)
LastObs(f, i) ==
    LET at == {n \in 1..NObs : Obs(n).frame = f /\ Obs(n).instance = i}
    IN  CHOOSE n \in at : \A m \in at : m <= n

\* C8: every entry of data is a list of exactly keypoint_count triples; in
\* parse_json triple j is the j-th complete triple of the input list when the
\* list has one, and (0, 0, 0) otherwise.
C8_FixedLength ==
    /\ \A key \in DataKeys : Len(data[key[1]][key[2]]) = keypoint_count
    /\ prog = "json" =>
          \A key \in DataKeys :
              LET ann == annotations[LastObs(key[1], key[2])]
                  kp == IF ann.keypoints.has THEN ann.keypoints.v ELSE <<>>
              IN  \A j \in 1..keypoint_count :
                      data[key[1]][key[2]][j] =
                          IF 3 * j <= Len(kp)
                          THEN <<kp[3 * j - 2], kp[3 * j - 1], kp[3 * j]>>
                          ELSE <<0, 0, 0>>

\* With keypoint_count 2: one entry from a list of one triple (padded) and one
\* from a list of two triples and a stray value.
C8_Witness ==
    /\ prog = "json" /\ keypoint_count = 2 /\ Len(annotations) = 2
    /\ annotations[1].keypoints = Has(KpShort) /\ annotations[2].keypoints = Has(KpLong)
    /\ Cardinality(DataKeys) = 2
    /\ \E key \in DataKeys : data[key[1]][key[2]][2] = <<0, 0, 0>>

\* C9: data holds exactly the keys of the rows / annotations read, and under
\* each key the geometry of the last of them in input order.
C9_LastWriteWins ==
    pc # "error" =>
        /\ DataKeys = {<<Obs(n).frame, Obs(n).instance>> : n \in 1..NObs}
        /\ \A key \in DataKeys : data[key[1]][key[2]] = Obs(LastObs(key[1], key[2])).pts

\* Two rows with one key and different geometry.
C9_Witness ==
    /\ pc = "done" /\ NObs = 2
    /\ Obs(1).frame = Obs(2).frame /\ Obs(1).instance = Obs(2).instance
    /\ Obs(1).pts # Obs(2).pts
    /\ data[Obs(1).frame][Obs(1).instance] = Obs(2).pts

RECURSIVE ParseCsvRows(_, _, _)
\* parse_csv on a whole file: the loop over CsvRowStep
ParseCsvRows(st, rs, k) ==
    IF rs = <<>> THEN st ELSE ParseCsvRows(CsvRowStep(st, Head(rs), k), Tail(rs), k)

ParseCsv(rs, k) ==
    ParseCsvRows([data |-> EmptyMap, classes_by_instance |-> EmptyMap, frames_seen |-> {}], rs, k)

UniqueKeys(rs) ==
    \A a, b \in 1..Len(rs) :
        (rs[a].frame_id = rs[b].frame_id /\ rs[a].instance_id = rs[b].instance_id) => a = b

Reorderings(rs) ==
    {[n \in 1..Len(rs) |-> rs[p[n]]] : p \in Permutations(1..Len(rs))}

\* C10: when no two rows share (frame_id, instance_id), parse_csv gives the same
\* data, classes_by_instance and frames_seen on every reordering of the rows, and
\* build_cvat_xml the same XML.
C10_RowOrder ==
    (prog = "csv" /\ pc = "done" /\ UniqueKeys(rows)) =>
        \A rs \in Reorderings(rows) :
            LET st == ParseCsv(rs, keypoint_count)
            IN  /\ st.data = data
                /\ st.classes_by_instance = classes_by_instance
                /\ st.frames_seen = frames_seen
                /\ build_cvat_xml(st.data, st.classes_by_instance, classes,
                                  FramesSorted(st.frames_seen),
                                  CsvResolution(video)[1], CsvResolution(video)[2]) = xml

\* Three rows with distinct keys, two instances, two classes for one instance,
\* read in descending frame and instance order.
C10_Witness ==
    /\ prog = "csv" /\ pc = "done" /\ Len(rows) = 3 /\ UniqueKeys(rows)
    /\ rows[1].frame_id > rows[3].frame_id
    /\ rows[1].instance_id > rows[2].instance_id
    /\ rows[1].instance_id = rows[3].instance_id
    /\ rows[1].class_id > rows[3].class_id
    /\ Len(xml.tracks) = 2

-----------------------------------------------------------------------------
(* auto_kpts_bbox.py: keypoints_to_bboxes.  Its numbers are the JSON numbers
   as they come; the model uses small integers. *)

\* longest keypoint list, in triples, handed to keypoints_to_bboxes
MaxPts == 3

KbTriples ==
    {<<x, y, v>> : x \in {0, 5, 10}, y \in {0, 10}, v \in {0, 1}}
        \cup {<<5, 5, 1>>, <<10, 10, -1>>, <<7, 5, 2>>}

\* values after the last complete triple
KbTails == {<<>>, <<3>>, <<3, 12>>}

\* keypoints[o::3] for o = 0, 1, 2
Slice3(kps, o) ==
    [n \in 1..(IF Len(kps) > o THEN (Len(kps) - o + 2) \div 3 ELSE 0) |-> kps[o + 1 + 3 * (n - 1)]]

RECURSIVE VisibleFrom(_, _, _)
\* [c for c, v in zip(coords, v_flags) if v > 0], from position n on
VisibleFrom(coords, v_flags, n) ==
    IF n > Len(coords) \/ n > Len(v_flags) THEN <<>>
    ELSE (IF v_flags[n] > 0 THEN <<coords[n]>> ELSE <<>>)
             \o VisibleFrom(coords, v_flags, n + 1)

SeqMin(q) == CHOOSE x \in {q[n] : n \in 1..Len(q)} : \A m \in 1..Len(q) : x <= q[m]
SeqMax(q) == CHOOSE x \in {q[n] : n \in 1..Len(q)} : \A m \in 1..Len(q) : x >= q[m]

RECURSIVE NonzeroFrom(_, _, _)
\* [c for c, v in zip(coords, v_flags) if v != 0]
NonzeroFrom(coords, v_flags, n) ==
    IF n > Len(coords) \/ n > Len(v_flags) THEN <<>>
    ELSE (IF v_flags[n] # 0 THEN <<coords[n]>> ELSE <<>>)
             \o NonzeroFrom(coords, v_flags, n + 1)

\* keypoints_to_bboxes with the visibility test v != 0
keypoints_to_bboxes_nonzero(kps, image_id, category_id, ann_id) ==
    LET visible_x == NonzeroFrom(Slice3(kps, 0), Slice3(kps, 2), 1)
        visible_y == NonzeroFrom(Slice3(kps, 1), Slice3(kps, 2), 1)
    IN  IF visible_x = <<>> \/ visible_y = <<>> THEN <<>>
        ELSE LET x_min == SeqMin(visible_x)
                 y_min == SeqMin(visible_y)
                 width == SeqMax(visible_x) - x_min
                 height == SeqMax(visible_y) - y_min
             IN  <<[image_id |-> image_id, category_id |-> category_id,
                    bbox |-> <<x_min, y_min, width, height>>,
                    area |-> width * height, iscrowd |-> 0, id |-> ann_id]>>

\* the call's result: <<>> for None, <<dict>> otherwise
keypoints_to_bboxes(kps, image_id, category_id, ann_id) ==
    LET visible_x == VisibleFrom(Slice3(kps, 0), Slice3(kps, 2), 1)
        visible_y == VisibleFrom(Slice3(kps, 1), Slice3(kps, 2), 1)
    IN  IF visible_x = <<>> \/ visible_y = <<>> THEN <<>>
        ELSE LET x_min == SeqMin(visible_x)
                 y_min == SeqMin(visible_y)
                 width == SeqMax(visible_x) - x_min
                 height == SeqMax(visible_y) - y_min
             IN  <<[image_id |-> image_id, category_id |-> category_id,
                    bbox |-> <<x_min, y_min, width, height>>,
                    area |-> width * height, iscrowd |-> 0, id |-> ann_id]>>

BBoxUnchanged == UNCHANGED <<prog, convVars, mergeVars, kpVars, autoVars>>

\* the caller builds the argument, one (x, y, v) triple at a time
BBoxAddPoint ==
    /\ prog = "bbox" /\ pc = "args"
    /\ Len(kb_keypoints) < 3 * MaxPts
    /\ \E t \in KbTriples : kb_keypoints' = kb_keypoints \o t
    /\ UNCHANGED <<pc, kb_bbox>>
    /\ BBoxUnchanged

\* the call, on the list as built or with stray values after its last triple
BBoxCall ==
    /\ prog = "bbox" /\ pc = "args"
    /\ \E tail \in KbTails :
          /\ kb_keypoints' = kb_keypoints \o tail
          /\ kb_bbox' = keypoints_to_bboxes(kb_keypoints', 10, 2, 7)
    /\ pc' = "called"
    /\ BBoxUnchanged

InitBBox ==
    /\ prog = "bbox" /\ pc = "args"
    /\ kb_keypoints = <<>> /\ kb_bbox = <<>>
    /\ ConvIdle /\ MergeIdle /\ KpIdle /\ AutoIdle

NextBBox == BBoxAddPoint \/ BBoxCall

SpecBBox == InitBBox /\ [][NextBBox]_vars

-----------------------------------------------------------------------------
(* merge_bbox_keypoints.py, lines 41-90 *)

\* longest annotations list of corrected_keypoints.json
MaxKpAnns == 2
\* longest annotations list of corrected_bbox.json
MaxBoxAnns == 2

MergeImageIds == {10, 11}
MergeCategoryIds == {1, 2}

\* the box-side payload of an annotation; area, segmentation and iscrowd are optional
BoxPayloads ==
    {[bbox |-> <<0, 0, 4, 2>>, area |-> Has(8), segmentation |-> Has(<<1>>), iscrowd |-> Has(1)],
     [bbox |-> <<1, 1, 3, 3>>, area |-> Absent, segmentation |-> AbsentList, iscrowd |-> Absent]}

\* the n-th keypoint annotation carries keypoints <<n, n, 2>>; num_keypoints is optional
KpAnnLists ==
    UNION {{[n \in 1..m |->
                [image_id |-> f[n][1], category_id |-> f[n][2], keypoints |-> <<n, n, 2>>,
                 num_keypoints |-> IF n = 1 THEN Has(1) ELSE Absent]] :
            f \in [1..m -> MergeImageIds \X MergeCategoryIds]} : m \in 0..MaxKpAnns}

BoxAnnLists ==
    UNION {[1..m -> {[image_id |-> im, category_id |-> c, bbox |-> b.bbox, area |-> b.area,
                      segmentation |-> b.segmentation, iscrowd |-> b.iscrowd] :
                        im \in MergeImageIds, c \in MergeCategoryIds, b \in BoxPayloads}] :
           m \in 0..MaxBoxAnns}

\* annotations_by_image[ann["image_id"]][side].append(ann) on the defaultdict
GroupAdd(g, ann, side) ==
    LET known == \E n \in 1..Len(g.order) : g.order[n] = ann.image_id
        order == IF known THEN g.order ELSE Append(g.order, ann.image_id)
        kps == [x \in DOMAIN g.keypoints \cup {ann.image_id} |->
                   IF x \in DOMAIN g.keypoints THEN g.keypoints[x] ELSE <<>>]
        bxs == [x \in DOMAIN g.bboxes \cup {ann.image_id} |->
                   IF x \in DOMAIN g.bboxes THEN g.bboxes[x] ELSE <<>>]
    IN  [order |-> order,
         keypoints |-> IF side = "keypoints"
                       THEN [kps EXCEPT ![ann.image_id] = Append(@, ann)] ELSE kps,
         bboxes |-> IF side = "bboxes"
                    THEN [bxs EXCEPT ![ann.image_id] = Append(@, ann)] ELSE bxs]

RECURSIVE GroupAll(_, _, _)
\* the loops at lines 51-52 and 54-55
GroupAll(g, anns, side) ==
    IF anns = <<>> THEN g ELSE GroupAll(GroupAdd(g, Head(anns), side), Tail(anns), side)

RECURSIVE MatchingBBoxesFirst(_, _)
\* only the first box of the category: a 1:1 pairing
MatchingBBoxesFirst(boxes, kp_ann) ==
    IF boxes = <<>> THEN <<>>
    ELSE IF Head(boxes).category_id = kp_ann.category_id THEN <<Head(boxes)>>
    ELSE MatchingBBoxesFirst(Tail(boxes), kp_ann)

RECURSIVE MatchingBBoxes(_, _)
\* lines 63-66: the boxes of the image with the keypoint annotation's category
MatchingBBoxes(boxes, kp_ann) ==
    IF boxes = <<>> THEN <<>>
    ELSE (IF Head(boxes).category_id = kp_ann.category_id THEN <<Head(boxes)>> ELSE <<>>)
             \o MatchingBBoxes(Tail(boxes), kp_ann)

\* lines 68-78
MergedAnn(id, image_id, kp_ann, bbox_ann) ==
    [id |-> id, image_id |-> image_id, category_id |-> kp_ann.category_id,
     bbox |-> bbox_ann.bbox,
     area |-> IF bbox_ann.area.has THEN bbox_ann.area.v ELSE 0,
     segmentation |-> IF bbox_ann.segmentation.has THEN bbox_ann.segmentation.v ELSE <<>>,
     iscrowd |-> IF bbox_ann.iscrowd.has THEN bbox_ann.iscrowd.v ELSE 0,
     keypoints |-> kp_ann.keypoints,
     num_keypoints |-> IF kp_ann.num_keypoints.has THEN kp_ann.num_keypoints.v ELSE 0]

MergeUnchanged == UNCHANGED <<prog, convVars, bboxVars, kpVars, autoVars>>

MergeGroupKeypoints ==
    /\ prog = "merge" /\ pc = "group_keypoints"
    /\ annotations_by_image' = GroupAll(annotations_by_image, keypoints_data, "keypoints")
    /\ pc' = "group_bboxes"
    /\ UNCHANGED <<keypoints_data, bbox_data, merge_pos, merged_annotations, annotation_id>>
    /\ MergeUnchanged

\* the second grouping loop, then lines 58-59
MergeGroupBBoxes ==
    /\ prog = "merge" /\ pc = "group_bboxes"
    /\ annotations_by_image' = GroupAll(annotations_by_image, bbox_data, "bboxes")
    /\ merged_annotations' = <<>>
    /\ annotation_id' = 1
    /\ merge_pos' = <<1, 1>>
    /\ pc' = "merge"
    /\ UNCHANGED <<keypoints_data, bbox_data>>
    /\ MergeUnchanged

\* one keypoint annotation of the current image: lines 62-80
MergeKeypointAnn ==
    /\ prog = "merge" /\ pc = "merge"
    /\ merge_pos[1] <= Len(annotations_by_image.order)
    /\ LET image_id == annotations_by_image.order[merge_pos[1]]
           kps == annotations_by_image.keypoints[image_id]
       IN  /\ merge_pos[2] <= Len(kps)
           /\ LET kp_ann == kps[merge_pos[2]]
                  matching_bboxes == MatchingBBoxes(annotations_by_image.bboxes[image_id], kp_ann)
              IN  /\ merged_annotations' = merged_annotations \o
                         [n \in 1..Len(matching_bboxes) |->
                             MergedAnn(annotation_id + n - 1, image_id, kp_ann, matching_bboxes[n])]
                  /\ annotation_id' = annotation_id + Len(matching_bboxes)
    /\ merge_pos' = <<merge_pos[1], merge_pos[2] + 1>>
    /\ UNCHANGED <<pc, keypoints_data, bbox_data, annotations_by_image>>
    /\ MergeUnchanged

\* the keypoint annotations of the current image are exhausted: the next image
MergeNextImage ==
    /\ prog = "merge" /\ pc = "merge"
    /\ merge_pos[1] <= Len(annotations_by_image.order)
    /\ merge_pos[2] > Len(annotations_by_image.keypoints[annotations_by_image.order[merge_pos[1]]])
    /\ merge_pos' = <<merge_pos[1] + 1, 1>>
    /\ UNCHANGED <<pc, keypoints_data, bbox_data, annotations_by_image,
                   merged_annotations, annotation_id>>
    /\ MergeUnchanged

\* lines 83-90: combined.json is written
MergeWrite ==
    /\ prog = "merge" /\ pc = "merge"
    /\ merge_pos[1] > Len(annotations_by_image.order)
    /\ pc' = "done"
    /\ UNCHANGED mergeVars
    /\ MergeUnchanged

InitMerge ==
    /\ prog = "merge" /\ pc = "group_keypoints"
    /\ keypoints_data \in KpAnnLists
    /\ bbox_data \in BoxAnnLists
    /\ annotations_by_image = NoGroups
    /\ merge_pos = <<0, 0>> /\ merged_annotations = <<>> /\ annotation_id = 0
    /\ ConvIdle /\ BBoxIdle /\ KpIdle /\ AutoIdle

NextMerge ==
    MergeGroupKeypoints \/ MergeGroupBBoxes \/ MergeKeypointAnn \/ MergeNextImage \/ MergeWrite

SpecMerge == InitMerge /\ [][NextMerge]_vars

-----------------------------------------------------------------------------
(* keypoints_to_bboxes and the merger: the claims *)

KbComplete == 1..(Len(kb_keypoints) \div 3)
KbX(n) == kb_keypoints[3 * n - 2]
KbY(n) == kb_keypoints[3 * n - 1]
KbV(n) == kb_keypoints[3 * n]
KbVisible == {n \in KbComplete : KbV(n) > 0}

\* C1: with a visible triple the box is [x_min, y_min, x_max - x_min,
\* y_max - y_min] over exactly the triples with v > 0; with none the result is
\* None.
C1_VisibleBox ==
    (prog = "bbox" /\ pc = "called") =>
        IF KbVisible = {} THEN kb_bbox = <<>>
        ELSE /\ Len(kb_bbox) = 1
             /\ \E a, b, c, d \in KbVisible :
                   /\ \A n \in KbVisible :
                         /\ KbX(a) <= KbX(n) /\ KbX(n) <= KbX(b)
                         /\ KbY(c) <= KbY(n) /\ KbY(n) <= KbY(d)
                   /\ kb_bbox[1].bbox = <<KbX(a), KbY(c), KbX(b) - KbX(a), KbY(d) - KbY(c)>>

\* keypoints [0,0,0, 5,5,1, 10,10,1] give bbox (5, 5, 5, 5), area 25.
C1_Witness ==
    /\ prog = "bbox" /\ pc = "called"
    /\ kb_keypoints = <<0, 0, 0, 5, 5, 1, 10, 10, 1>>
    /\ Len(kb_bbox) = 1 /\ kb_bbox[1].bbox = <<5, 5, 5, 5>> /\ kb_bbox[1].area = 25

\* the (keypoint annotation, box annotation) pairs that share image and category
MergePairs ==
    {p \in (1..Len(keypoints_data)) \X (1..Len(bbox_data)) :
        /\ keypoints_data[p[1]].image_id = bbox_data[p[2]].image_id
        /\ keypoints_data[p[1]].category_id = bbox_data[p[2]].category_id}
PairContent(p) ==
    [image_id |-> keypoints_data[p[1]].image_id, category_id |-> keypoints_data[p[1]].category_id,
     bbox |-> bbox_data[p[2]].bbox, keypoints |-> keypoints_data[p[1]].keypoints]
MergedContent(r) ==
    [image_id |-> merged_annotations[r].image_id, category_id |-> merged_annotations[r].category_id,
     bbox |-> merged_annotations[r].bbox, keypoints |-> merged_annotations[r].keypoints]

\* C7: the merged records are the pairs of a keypoint annotation and a box
\* annotation with equal image_id and category_id, one record per pair, each with
\* the box's bbox and the keypoint annotation's keypoints, image_id and
\* category_id; the ids run 1, 2, 3, ...
C7_CrossJoin ==
    (prog = "merge" /\ pc = "done") =>
        /\ Len(merged_annotations) = Cardinality(MergePairs)
        /\ \A c \in {PairContent(p) : p \in MergePairs}
                    \cup {MergedContent(r) : r \in 1..Len(merged_annotations)} :
              Cardinality({p \in MergePairs : PairContent(p) = c})
                  = Cardinality({r \in 1..Len(merged_annotations) : MergedContent(r) = c})
        /\ \A r \in 1..Len(merged_annotations) : merged_annotations[r].id = r

\* One keypoint annotation and two boxes with image_id 10 and category_id 2: two
\* records with the same keypoints and distinct boxes.
C7_Witness ==
    /\ prog = "merge" /\ pc = "done"
    /\ Len(keypoints_data) = 1 /\ Len(bbox_data) = 2
    /\ keypoints_data[1].image_id = 10 /\ keypoints_data[1].category_id = 2
    /\ \A b \in 1..2 : bbox_data[b].image_id = 10 /\ bbox_data[b].category_id = 2
    /\ Len(merged_annotations) = 2
    /\ merged_annotations[1].keypoints = merged_annotations[2].keypoints
    /\ merged_annotations[1].bbox # merged_annotations[2].bbox

-----------------------------------------------------------------------------
(* convert_json_keypoints.py: build_coco_header_from_metadata *)

\* a metadata.py: keypoint_info (key -> name), skeleton_info (key -> link), classes
Metadata(kinfo, sinfo, cls) ==
    [loaded |-> TRUE, keypoint_info |-> kinfo, skeleton_info |-> sinfo, classes |-> cls]

\* keys with gaps; a name that occurs twice and links listed out of key order; a
\* link whose second endpoint is no keypoint name
MetaA == Metadata((0 :> "nose") @@ (2 :> "tail"), (0 :> <<"nose", "tail">>), <<"mouse">>)
MetaB == Metadata((1 :> "ear") @@ (3 :> "paw") @@ (4 :> "ear"),
                  (5 :> <<"paw", "ear">>) @@ (2 :> <<"ear", "paw">>), <<"mouse", "rat">>)
MetaC == Metadata((0 :> "nose"),
                  (0 :> <<"nose", "nose">>) @@ (1 :> <<"nose", "tail">>), <<"mouse">>)
Metadatas == {MetaA, MetaB, MetaC}

\* line 28: the names in key order
KeypointNames(info) ==
    LET keys == SortedSeq(DOMAIN info.keypoint_info)
    IN  [n \in 1..Len(keys) |-> info.keypoint_info[keys[n]]]

HasName(names, name) == \E n \in 1..Len(names) : names[n] = name

\* the index counted from 0
NameToIndexFromZero(names, name) ==
    (CHOOSE n \in 1..Len(names) :
        names[n] = name /\ \A m \in 1..Len(names) : names[m] = name => m <= n) - 1

\* line 29: {name: idx + 1 for idx, name in enumerate(keypoints)}; a name that
\* occurs twice keeps its last position
NameToIndex(names, name) ==
    CHOOSE n \in 1..Len(names) :
        names[n] = name /\ \A m \in 1..Len(names) : names[m] = name => m <= n

\* lines 33-38: KeyError on name_to_index[link[0]] or [link[1]], raised as ValueError
SkeletonRaises(info) ==
    \E k \in DOMAIN info.skeleton_info : \E e \in 1..2 :
        ~HasName(KeypointNames(info), info.skeleton_info[k][e])

\* lines 30-36, when no link raises
Skeleton(info) ==
    LET names == KeypointNames(info)
        keys == SortedSeq(DOMAIN info.skeleton_info)
    IN  [n \in 1..Len(keys) |->
            <<NameToIndex(names, info.skeleton_info[keys[n]][1]),
              NameToIndex(names, info.skeleton_info[keys[n]][2])>>]

\* lines 39-50: the one category of the header
build_coco_header_from_metadata(info) ==
    [built |-> TRUE, keypoints |-> KeypointNames(info), skeleton |-> Skeleton(info),
     name |-> info.classes[1]]

-----------------------------------------------------------------------------
(* convert_json_keypoints.py: read_csv_annotations *)

\* reader.fieldnames: the id columns, and the keypoint columns as <<kind, i>>
Columns(n) == {<<kind, i>> : kind \in {"x", "y", "score"}, i \in 0..(n - 1)}
Fieldnames == {[ids |-> TRUE, cols |-> Columns(2)],
               [ids |-> TRUE, cols |-> Columns(2) \ {<<"score", 1>>}],
               [ids |-> FALSE, cols |-> Columns(1)]}

RECURSIVE KeypointTripletsFrom(_, _)
\* lines 72-76: the while loop stops at the first i with a column missing
KeypointTripletsFrom(cols, i) ==
    IF {<<"x", i>>, <<"y", i>>, <<"score", i>>} \subseteq cols
    THEN KeypointTripletsFrom(cols, i + 1) ELSE i
KeypointTriplets(fn) == KeypointTripletsFrom(fn.cols, 0)

\* The cells of triple j of a row, in four patterns: three numbers with score
\* 0.9; a first triple of numbers with score 0.3 and empty cells after it; an
\* empty cell in every triple; text that is no number in every triple.
KpCsvTriple(p, j) ==
    CASE p = "A" -> <<Num(Unit * (j + 1) + 4), Num(2 * Unit), Num(9000)>>
      [] p = "M" -> IF j = 0 THEN <<Num(3 * Unit), Num(5 * Unit), Num(3000)>>
                    ELSE <<Num(Unit), EmptyCell, Num(9000)>>
      [] p = "E" -> <<Num(3 * Unit + 6), EmptyCell, Num(0)>>
      [] OTHER   -> <<Num(Unit), Num(Unit), BadCell>>

\* The rows a file may hold.  To keep the state space small the instance of a
\* row follows its cells: 1 for the patterns A and M, 2 for E and X.
KpCsvRows(nt) ==
    { [frame_id |-> f, instance_id |-> IF p \in {"A", "M"} THEN 1 ELSE 2,
       kp |-> [j \in 1..nt |-> KpCsvTriple(p, j - 1)]] :
        f \in FrameIds, p \in {"A", "M", "E", "X"} }

\* the except branch left out: float() of an empty cell read as 0.0
KpTripleEmptyAsZero(cells) ==
    IF \A c \in 1..3 : cells[c].k \in {"num", "empty"}
    THEN <<IF cells[1].k = "num" THEN cells[1].v ELSE 0,
           IF cells[2].k = "num" THEN cells[2].v ELSE 0,
           IF cells[3].k = "num" /\ cells[3].v > Unit \div 2 THEN 2 ELSE 1>>
    ELSE <<0, 0, 0>>

\* lines 92-97: x, y, v of one triple, or 0, 0, 0 when a float() raises
KpTriple(cells) ==
    IF \A c \in 1..3 : cells[c].k = "num"
    THEN <<cells[1].v, cells[2].v, IF cells[3].v > Unit \div 2 THEN 2 ELSE 1>>
    ELSE <<0, 0, 0>>

RECURSIVE KpKeypoints(_)
\* lines 90-97: the flat list x0, y0, v0, x1, y1, v1, ...
KpKeypoints(kp) ==
    IF kp = <<>> THEN <<>> ELSE KpTriple(Head(kp)) \o KpKeypoints(Tail(kp))

\* line 99: the positions of the triples with v != 0
ValidTriples(keypoints) == {n \in 1..(Len(keypoints) \div 3) : keypoints[3 * n] # 0}

SetMin(S) == CHOOSE x \in S : \A y \in S : x <= y
SetMax(S) == CHOOSE x \in S : \A y \in S : x >= y

\* a box of one point, [x, y, 0, 0], taken from the first triple whatever its v
KpBBoxFirstTriple(keypoints) ==
    IF Len(keypoints) < 3 THEN <<0, 0, 0, 0>>
    ELSE <<keypoints[1], keypoints[2], 0, 0>>

\* lines 99-104
KpBBox(keypoints) ==
    LET valid == ValidTriples(keypoints)
        xs == {keypoints[3 * n - 2] : n \in valid}
        ys == {keypoints[3 * n - 1] : n \in valid}
    IN  IF valid = {} THEN <<0, 0, 0, 0>>
        ELSE <<SetMin(xs), SetMin(ys), SetMax(xs) - SetMin(xs), SetMax(ys) - SetMin(ys)>>

\* lines 106-116
KpAnnotation(id, image_id, instance_id, keypoints) ==
    LET bbox == KpBBox(keypoints)
    IN  [id |-> id, image_id |-> image_id, category_id |-> 2, keypoints |-> keypoints,
         num_keypoints |-> Cardinality(ValidTriples(keypoints)), iscrowd |-> 0,
         bbox |-> bbox, area |-> bbox[3] * bbox[4], track_id |-> Has(instance_id)]

\* line 86; file_name holds the number NNNN of "NNNN.jpg"
KpImage(image_id, frame_id) ==
    [id |-> image_id, file_name |-> frame_id, height |-> 720, width |-> 1280]

-----------------------------------------------------------------------------
(* convert_json_keypoints.py: convert_to_cvat_xml and main *)

\* line 144: "x,y;x,y;..." with two decimals, as the sequence of formatted pairs
PointsStr(keypoints) ==
    [j \in 1..((Len(keypoints) + 2) \div 3) |->
        <<Fmt2(keypoints[3 * j - 2]), Fmt2(keypoints[3 * j - 1])>>]

\* insertion after the last element whose image_id is not larger
InsertByImageId(sorted, ann) ==
    LET before == {n \in 1..Len(sorted) : sorted[n].image_id <= ann.image_id}
        k == Cardinality(before)
    IN  SubSeq(sorted, 1, k) \o <<ann>> \o SubSeq(sorted, k + 1, Len(sorted))

RECURSIVE SortedByImageIdFrom(_, _)
\* line 143: sorted(frames, key=lambda x: x["image_id"]), a stable sort
SortedByImageIdFrom(done, frames) ==
    IF frames = <<>> THEN done
    ELSE SortedByImageIdFrom(InsertByImageId(done, Head(frames)), Tail(frames))
SortedByImageId(frames) == SortedByImageIdFrom(<<>>, frames)

RECURSIVE TrackIdsInOrder(_, _)
\* lines 124-126: the keys of the defaultdict, in insertion order
TrackIdsInOrder(anns, seen) ==
    IF anns = <<>> THEN <<>>
    ELSE IF Head(anns).track_id.v \in seen THEN TrackIdsInOrder(Tail(anns), seen)
    ELSE <<Head(anns).track_id.v>>
             \o TrackIdsInOrder(Tail(anns), seen \cup {Head(anns).track_id.v})

\* tracks[track_id], in input order
TrackFrames(anns, track_id) == SelectSeq(anns, LAMBDA a : a.track_id.v = track_id)

\* line 126 raises KeyError on an annotation without track_id
ConvertRaises(anns) == \E n \in 1..Len(anns) : ~anns[n].track_id.has

\* lines 123-145: the <track> elements, when no annotation raises
convert_to_cvat_xml(anns, metadata) ==
    LET ids == TrackIdsInOrder(anns, {})
    IN  [t \in 1..Len(ids) |->
            LET frames == SortedByImageId(TrackFrames(anns, ids[t]))
            IN  [id |-> ids[t], label |-> metadata.classes[1],
                 points |-> [n \in 1..Len(frames) |->
                                [frame |-> frames[n].image_id,
                                 points |-> PointsStr(frames[n].keypoints)]]]]

\* the .json inputs of main: a COCO file of one image and two annotations; an
\* object with neither key; a file with an annotation that has no track_id
KpJsonAnn(id, image_id, track) ==
    [id |-> id, image_id |-> image_id, category_id |-> 2,
     keypoints |-> <<Unit + 4, 2 * Unit, 2>>, num_keypoints |-> 1, iscrowd |-> 0,
     bbox |-> <<Unit + 4, 2 * Unit, 0, 0>>, area |-> 0, track_id |-> track]
KpJsonDocs ==
    {[images |-> Has(<<KpImage(0, 0)>>),
      annotations |-> Has(<<KpJsonAnn(0, 1, Has(4)), KpJsonAnn(1, 0, Has(4))>>)],
     [images |-> AbsentList, annotations |-> AbsentList],
     [images |-> AbsentList, annotations |-> Has(<<KpJsonAnn(0, 0, Absent)>>)]}

KpUnchanged == UNCHANGED <<prog, convVars, mergeVars, bboxVars, autoVars>>

\* main line 164: load_metadata returns dataset_info
KpLoadMetadata ==
    /\ prog = "kp" /\ pc = "load"
    /\ dataset_info' \in Metadatas
    /\ pc' = "header"
    /\ UNCHANGED <<header, fieldnames, csv_rows, frame_to_image_id, original, output>>
    /\ KpUnchanged

\* line 164: no metadata.py (FileNotFoundError) or one that does not import
KpLoadMetadataError ==
    /\ prog = "kp" /\ pc = "load"
    /\ pc' = "error"
    /\ UNCHANGED kpVars
    /\ KpUnchanged

\* line 165
KpBuildHeader ==
    /\ prog = "kp" /\ pc = "header"
    /\ ~SkeletonRaises(dataset_info)
    /\ header' = build_coco_header_from_metadata(dataset_info)
    /\ pc' = "read"
    /\ UNCHANGED <<dataset_info, fieldnames, csv_rows, frame_to_image_id, original, output>>
    /\ KpUnchanged

\* line 165: ValueError("Keypoint missing in keypoint_info")
KpBuildHeaderError ==
    /\ prog = "kp" /\ pc = "header"
    /\ SkeletonRaises(dataset_info)
    /\ pc' = "error"
    /\ UNCHANGED kpVars
    /\ KpUnchanged

\* lines 167-168: a .json input, json.load
KpReadJson ==
    /\ prog = "kp" /\ pc = "read"
    /\ original' \in KpJsonDocs
    /\ pc' = "write"
    /\ UNCHANGED <<dataset_info, header, fieldnames, csv_rows, frame_to_image_id, output>>
    /\ KpUnchanged

\* lines 167-172: a .json file that json.load rejects, a .csv input whose video
\* does not open (line 66), or an input that is neither
KpReadError ==
    /\ prog = "kp" /\ pc = "read"
    /\ pc' = "error"
    /\ UNCHANGED kpVars
    /\ KpUnchanged

\* lines 169-170 and 59-76: a .csv input, the video opens, the header line is read
KpOpenCsv ==
    /\ prog = "kp" /\ pc = "read"
    /\ fieldnames' \in Fieldnames
    /\ original' = [images |-> Has(<<>>), annotations |-> Has(<<>>)]
    /\ pc' = "rows"
    /\ UNCHANGED <<dataset_info, header, csv_rows, frame_to_image_id, output>>
    /\ KpUnchanged

\* lines 78-117: one row.  image_id_counter is len(images), next_ann_id is
\* len(annotations).
KpRow ==
    /\ prog = "kp" /\ pc = "rows"
    /\ Len(csv_rows) < MaxRows
    /\ fieldnames.ids
    /\ \E row \in KpCsvRows(KeypointTriplets(fieldnames)) :
          LET known == row.frame_id \in DOMAIN frame_to_image_id
              image_id == IF known THEN frame_to_image_id[row.frame_id]
                          ELSE Len(original.images.v)
              ann == KpAnnotation(Len(original.annotations.v), image_id,
                                  row.instance_id, KpKeypoints(row.kp))
          IN  /\ csv_rows' = Append(csv_rows, row)
              /\ frame_to_image_id' =
                     IF known THEN frame_to_image_id
                     ELSE Put(frame_to_image_id, row.frame_id, image_id)
              /\ original' =
                     [images |-> IF known THEN original.images
                                 ELSE Has(Append(original.images.v,
                                                 KpImage(image_id, row.frame_id))),
                      annotations |-> Has(Append(original.annotations.v, ann))]
    /\ UNCHANGED <<pc, dataset_info, header, fieldnames, output>>
    /\ KpUnchanged

\* line 79 or 80: row["frame_id"], row["instance_id"] on a header without them
KpRowKeyError ==
    /\ prog = "kp" /\ pc = "rows"
    /\ Len(csv_rows) < MaxRows
    /\ ~fieldnames.ids
    /\ pc' = "error"
    /\ UNCHANGED kpVars
    /\ KpUnchanged

\* lines 176-186, --format json: the file is opened and dumped
KpWriteJson ==
    /\ prog = "kp" /\ pc \in {"rows", "write"}
    /\ output' = [format |-> "json",
                  categories |-> <<header>>,
                  images |-> original.images.v,
                  annotations |-> original.annotations.v,
                  tracks |-> <<>>]
    /\ pc' = "done"
    /\ UNCHANGED <<dataset_info, header, fieldnames, csv_rows, frame_to_image_id, original>>
    /\ KpUnchanged

\* lines 187-188, --format xml: convert_to_cvat_xml builds the tree and writes it
KpWriteXml ==
    /\ prog = "kp" /\ pc \in {"rows", "write"}
    /\ original.annotations.has
    /\ ~ConvertRaises(original.annotations.v)
    /\ output' = [format |-> "xml", categories |-> <<>>, images |-> <<>>,
                  annotations |-> <<>>,
                  tracks |-> convert_to_cvat_xml(original.annotations.v, dataset_info)]
    /\ pc' = "done"
    /\ UNCHANGED <<dataset_info, header, fieldnames, csv_rows, frame_to_image_id, original>>
    /\ KpUnchanged

\* line 188 or 126, --format xml: KeyError on original["annotations"] or on
\* ann['track_id'], before tree.write opens the file
KpWriteXmlKeyError ==
    /\ prog = "kp" /\ pc \in {"rows", "write"}
    /\ ~original.annotations.has \/ ConvertRaises(original.annotations.v)
    /\ pc' = "error"
    /\ UNCHANGED kpVars
    /\ KpUnchanged

InitKp ==
    /\ prog = "kp" /\ pc = "load"
    /\ KpIdle
    /\ ConvIdle /\ MergeIdle /\ BBoxIdle /\ AutoIdle

NextKp ==
    \/ KpLoadMetadata \/ KpLoadMetadataError \/ KpBuildHeader \/ KpBuildHeaderError
    \/ KpReadJson \/ KpReadError \/ KpOpenCsv \/ KpRow \/ KpRowKeyError
    \/ KpWriteJson \/ KpWriteXml \/ KpWriteXmlKeyError

\* convert_json_keypoints.main
SpecKp == InitKp /\ [][NextKp]_vars

-----------------------------------------------------------------------------
(* The two converters from the first line of main *)

ConvLoadUnchanged ==
    UNCHANGED <<prog, rows, img_pos, annotations, id_to_frame, images_info, data,
                classes_by_instance, frames_seen, xml, video,
                mergeVars, bboxVars, kpVars, autoVars>>

\* convert_json_bbox.main lines 240-262 on a .csv input: metadata.py loads, and
\* parse_csv opens the file and reads its header line
ConvLoadCsv ==
    /\ prog = "csv" /\ pc = "load"
    /\ \E s \in CsvSetups :
          /\ keypoint_count' = s[1]
          /\ headers' \in {[ids |-> TRUE, nk |-> s[2]], [ids |-> FALSE, nk |-> s[2]]}
          /\ classes' = s[3]
    /\ pc' = "rows"
    /\ UNCHANGED images
    /\ ConvLoadUnchanged

\* lines 240-268 on a .json input: metadata.py loads, and parse_json loads the file
ConvLoadJson ==
    /\ prog = "json" /\ pc = "load"
    /\ \E s \in JsonSetups :
          /\ keypoint_count' = s[1]
          /\ classes' = s[2]
          /\ images' = s[3]
    /\ pc' = "images"
    /\ UNCHANGED headers
    /\ ConvLoadUnchanged

\* line 240 raises (no metadata.py, an import error, no dataset_info), line 244
\* raises, or line 256 does (an input that is neither .csv nor .json)
ConvLoadError ==
    /\ prog \in {"csv", "json"} /\ pc = "load"
    /\ pc' = "error"
    /\ UNCHANGED <<keypoint_count, classes, headers, images>>
    /\ ConvLoadUnchanged

InitConvLoad ==
    /\ prog \in {"csv", "json"} /\ pc = "load"
    /\ keypoint_count = 0 /\ classes = <<>> /\ headers = NoHeaders /\ rows = <<>>
    /\ images = <<>> /\ img_pos = 0 /\ annotations = <<>>
    /\ id_to_frame = EmptyMap /\ images_info = EmptyMap
    /\ data = EmptyMap /\ classes_by_instance = EmptyMap /\ frames_seen = {}
    /\ xml = NoXml
    /\ video \in (IF prog = "csv" THEN VideoArgs ELSE {NoVideo})
    /\ MergeIdle /\ BBoxIdle /\ KpIdle /\ AutoIdle

InitConv == InitConvLoad \/ InitKp

NextConv ==
    \/ ConvLoadCsv \/ ConvLoadJson \/ ConvLoadError
    \/ CsvVideoError \/ NextCsv \/ NextJson \/ NextKp

\* the main of convert_json_bbox and of convert_json_keypoints, from load_metadata on
SpecConv == InitConv /\ [][NextConv]_vars

-----------------------------------------------------------------------------
(* The CSV readers on cells that are no numbers *)

\* the keypoint cells of a row that parse_csv reads: the columns x{i}, y{i},
\* score{i} with i < keypoint_count that the header has
CsvCellsRead(row) ==
    {jc \in (1..Min(keypoint_count, Len(row.kp))) \X (1..3) : TRUE}

\* the rows of the keypoints converter's CSV are read when its input is a .csv
KpCsvInput == prog = "kp" /\ fieldnames # NoFieldnames

\* triple j of a flat keypoint list
TripleOf(keypoints, j) == <<keypoints[3 * j - 2], keypoints[3 * j - 1], keypoints[3 * j]>>

\* C11 as stated: no row that a reader has accepted holds a keypoint field that
\* is empty or no number; such a row fails the file.
C11_FloatOrFail ==
    /\ prog = "csv" =>
          \A n \in 1..Len(rows) : \A jc \in CsvCellsRead(rows[n]) :
              rows[n].kp[jc[1]][jc[2]].k = "num"
    /\ KpCsvInput =>
          \A n \in 1..Len(csv_rows) : \A j \in 1..Len(csv_rows[n].kp) : \A c \in 1..3 :
              csv_rows[n].kp[j][c].k = "num"

\* C11 amended: parse_csv accepts no row with a non-empty field that is no
\* number, and stores 0.0 for an empty field and the number for any other;
\* read_csv_annotations accepts every row, one annotation per row, and a triple
\* with an empty or unparsable field becomes (0, 0, 0), any other (x, y, v) with
\* v = 2 for a score above 0.5 and 1 otherwise.
C11_EmptyReadsAsZero ==
    /\ prog = "csv" =>
          /\ \A n \in 1..Len(rows) : \A jc \in CsvCellsRead(rows[n]) :
                rows[n].kp[jc[1]][jc[2]].k # "bad"
          /\ \A key \in DataKeys :
                LET row == rows[LastObs(key[1], key[2])]
                IN  \A jc \in CsvCellsRead(row) :
                        data[key[1]][key[2]][jc[1]][jc[2]] =
                            IF row.kp[jc[1]][jc[2]].k = "num"
                            THEN row.kp[jc[1]][jc[2]].v ELSE 0
    /\ KpCsvInput =>
          /\ Len(original.annotations.v) = Len(csv_rows)
          /\ \A n \in 1..Len(csv_rows) :
                LET keypoints == original.annotations.v[n].keypoints
                    kp == csv_rows[n].kp
                IN  /\ Len(keypoints) = 3 * Len(kp)
                    /\ \A j \in 1..Len(kp) :
                          TripleOf(keypoints, j) =
                              IF \A c \in 1..3 : kp[j][c].k = "num"
                              THEN <<kp[j][1].v, kp[j][2].v,
                                     IF 2 * kp[j][3].v > Unit THEN 2 ELSE 1>>
                              ELSE <<0, 0, 0>>

\* A row of the keypoints converter whose second triple has an empty y: the
\* first triple is kept with v = 1, the second is 0, 0, 0, and the file is written.
C11_Witness ==
    /\ prog = "kp" /\ pc = "done" /\ Len(csv_rows) = 1
    /\ Len(csv_rows[1].kp) = 2 /\ csv_rows[1].kp[2][2].k = "empty"
    /\ output.format = "json"
    /\ output.annotations[1].keypoints = <<3 * Unit, 5 * Unit, 1, 0, 0, 0>>

-----------------------------------------------------------------------------
(* parse_csv on a header without a required column *)

\* C12 as stated: on a header that lacks frame_id, class_id or instance_id, or a
\* column x{i}, y{i}, score{i} with i < keypoint_count, no row is accepted and
\* no entry is stored.
C12_SchemaFatal ==
    (prog = "csv" /\ (~headers.ids \/ headers.nk < keypoint_count)) =>
        (rows = <<>> /\ data = EmptyMap)

\* C12 amended: on a header that lacks an id column no row is accepted and no
\* entry is stored; on a header that has them every entry holds keypoint_count
\* triples, and the triples of the keypoint columns the header lacks are
\* (0.0, 0.0, 0.0).
C12_MissingKeypointColumnZero ==
    prog = "csv" =>
        /\ ~headers.ids => (rows = <<>> /\ data = EmptyMap /\ frames_seen = {})
        /\ \A key \in DataKeys :
              /\ Len(data[key[1]][key[2]]) = keypoint_count
              /\ \A j \in (headers.nk + 1)..keypoint_count :
                    data[key[1]][key[2]][j] = <<0, 0, 0>>

\* A file with the columns of one keypoint read with keypoint_count 2: the run
\* ends with an entry whose second triple is zero and whose first is not.
C12_Witness ==
    /\ prog = "csv" /\ pc = "done" /\ headers.ids
    /\ headers.nk = 1 /\ keypoint_count = 2 /\ Len(rows) = 1
    /\ \E key \in DataKeys :
          /\ data[key[1]][key[2]][1] = <<Unit + 4, 2 * Unit, 9000>>
          /\ data[key[1]][key[2]][2] = <<0, 0, 0>>
    /\ Len(xml.tracks) = 1

-----------------------------------------------------------------------------
(* The output files of the two converters *)

\* the output file of the run exists (or has been rewritten)
OutputWritten == xml # NoXml \/ output # NoOutput

\* metadata and input of the run have been read to the end without an error
ParsingDone ==
    \/ prog = "csv" /\ pc = "rows"
    \/ prog = "json" /\ pc = "images" /\ img_pos = Len(images)
    \/ prog = "kp" /\ pc \in {"rows", "write"} /\ dataset_info.loaded /\ header.built

\* C13: in every run of either converter the output file is written in one step
\* that is taken only after the metadata and the input have been read without
\* error and that ends the run; a run that has not ended, or that ended in an
\* error of load_metadata, the header build or a reader, has written no file.
C13_NoPartialOutput ==
    /\ [](OutputWritten => pc = "done")
    /\ [][(xml' # xml \/ output' # output) => (ParsingDone /\ ~OutputWritten /\ pc' = "done")]_vars

\* parse_csv has stored two rows and raises on the third: no XML is written.
C13_Witness ==
    /\ prog = "csv" /\ pc = "error" /\ Len(rows) = 2 /\ Cardinality(DataKeys) = 2
    /\ ~OutputWritten

-----------------------------------------------------------------------------
(* parse_json on annotations without geometry *)

\* the annotation carries usable geometry: a keypoints list with a complete triple
HasGeometry(ann) == ann.keypoints.has /\ Len(ann.keypoints.v) >= 3

\* the all-zero entry
ZeroPts(k) == [j \in 1..k |-> <<0, 0, 0>>]

\* C14 as stated: every key of the model was given by an annotation with usable
\* geometry, and its entry is not the all-zero placeholder.
C14_Dropped ==
    prog = "json" =>
        \A key \in DataKeys :
            /\ \E n \in 1..Len(annotations) :
                  /\ Obs(n).frame = key[1] /\ Obs(n).instance = key[2]
                  /\ HasGeometry(annotations[n])
            /\ data[key[1]][key[2]] # ZeroPts(keypoint_count)

\* C14 amended: every annotation read, with or without usable geometry, has an
\* entry under its (frame, instance) key, and the entry of a key whose last
\* annotation has no complete triple is keypoint_count triples (0, 0, 0).
C14_ZeroPlaceholder ==
    prog = "json" =>
        /\ \A n \in 1..Len(annotations) : <<Obs(n).frame, Obs(n).instance>> \in DataKeys
        /\ \A key \in DataKeys :
              ~HasGeometry(annotations[LastObs(key[1], key[2])]) =>
                  data[key[1]][key[2]] = ZeroPts(keypoint_count)

\* An annotation without keypoints and one whose list stops after two values:
\* the run ends with two all-zero entries, each written to the XML as a
\* <points> element of zeros.
C14_Witness ==
    /\ prog = "json" /\ pc = "done" /\ Len(annotations) = 2
    /\ ~annotations[1].keypoints.has /\ annotations[2].keypoints = Has(KpStub)
    /\ Cardinality(DataKeys) = 2
    /\ \A key \in DataKeys : data[key[1]][key[2]] = ZeroPts(keypoint_count)
    /\ Len(xml.tracks) = 2
    /\ \A t \in Tracks : Len(t.points) = 1 /\ t.points[1].points[1] = <<0, 0>>

-----------------------------------------------------------------------------
(* read_csv_annotations: the box of a row *)

\* every triple of the flat list ends with visibility 0
WhollyInvisible(keypoints) == ValidTriples(keypoints) = {}

\* C15 as stated: the annotation of a row whose triples all have visibility 0
\* does not carry the box [0, 0, 0, 0] with area 0.
C15_NoZeroBox ==
    KpCsvInput =>
        \A n \in 1..Len(original.annotations.v) :
            LET ann == original.annotations.v[n]
            IN  WhollyInvisible(ann.keypoints) =>
                    ~(ann.bbox = <<0, 0, 0, 0>> /\ ann.area = 0)

\* C15 amended: every row yields an annotation with a bbox; the annotation of a
\* row whose triples all have visibility 0 carries bbox [0, 0, 0, 0], area 0
\* and num_keypoints 0, and any other the box [min x, min y, max x - min x,
\* max y - min y] of its triples with visibility other than 0, with area
\* width * height.
C15_ZeroBox ==
    KpCsvInput =>
        /\ Len(original.annotations.v) = Len(csv_rows)
        /\ \A n \in 1..Len(original.annotations.v) :
              LET ann == original.annotations.v[n]
                  vis == {j \in 1..(Len(ann.keypoints) \div 3) : ann.keypoints[3 * j] # 0}
              IN  /\ ann.num_keypoints = Cardinality(vis)
                  /\ ann.area = ann.bbox[3] * ann.bbox[4]
                  /\ IF vis = {} THEN ann.bbox = <<0, 0, 0, 0>>
                     ELSE \E a, b, c, d \in vis :
                            /\ \A j \in vis :
                                  /\ ann.keypoints[3 * a - 2] <= ann.keypoints[3 * j - 2]
                                  /\ ann.keypoints[3 * j - 2] <= ann.keypoints[3 * b - 2]
                                  /\ ann.keypoints[3 * c - 1] <= ann.keypoints[3 * j - 1]
                                  /\ ann.keypoints[3 * j - 1] <= ann.keypoints[3 * d - 1]
                            /\ ann.bbox = <<ann.keypoints[3 * a - 2], ann.keypoints[3 * c - 1],
                                            ann.keypoints[3 * b - 2] - ann.keypoints[3 * a - 2],
                                            ann.keypoints[3 * d - 1] - ann.keypoints[3 * c - 1]>>

\* A row with an empty cell in each of its two triples, written out with
\* keypoints of six zeros and the box [0, 0, 0, 0], beside a row with a box of
\* width 1.
C15_Witness ==
    /\ prog = "kp" /\ pc = "done" /\ output.format = "json" /\ Len(csv_rows) = 2
    /\ output.annotations[1].keypoints = <<0, 0, 0, 0, 0, 0>>
    /\ output.annotations[1].bbox = <<0, 0, 0, 0>> /\ output.annotations[1].area = 0
    /\ output.annotations[2].bbox = <<Unit + 4, 2 * Unit, Unit, 0>>

-----------------------------------------------------------------------------
(* auto_kpts_bbox.py: build_coco_bbox_from_keypoints_json and main *)

\* the extensions of --input the model runs main on
InputExts == {".xml", ".XML", ".json", ""}

\* str.lower() on those
Lower(ext) == IF ext = ".XML" THEN ".xml" ELSE ext

\* the files of the image folder, by extension, and the test of line 186
FolderListings == {<<>>, <<".txt">>, <<".jpg", ".txt", ".PNG">>}
IsImage(ext) == ext \in {".jpg", ".jpeg", ".png", ".JPG", ".JPEG", ".PNG"}
ImagePaths(listing) == SelectSeq(listing, IsImage)

\* keypoint lists of the input: two visible points, one visible point, one
\* point with visibility 0
KjKeypointLists == {<<5, 5, 1, 10, 10, 2>>, <<7, 5, 2>>, <<0, 0, 0>>}

KjAnn(id, category_id, keypoints) ==
    [id |-> id, image_id |-> 10, category_id |-> category_id, keypoints |-> keypoints]

\* The annotations of the keypoints JSON: ids 5 and 9 (an id may repeat) and
\* categories 1 and 2 with each list; no keypoints key, or an empty list.
KjAnns ==
    { KjAnn(Has(id), c, Has(k)) : id \in {5, 9}, c \in {1, 2}, k \in KjKeypointLists }
    \cup { KjAnn(Has(5), 1, AbsentList), KjAnn(Has(5), 1, Has(<<>>)) }

\* an annotation with keypoints and no id: ann["id"] raises KeyError
KjAnnNoId == KjAnn(Absent, 1, Has(<<7, 5, 2>>))

\* the categories list of the input: two categories, or none
KjCategories == {<<[id |-> 1, name |-> "mouse"], [id |-> 2, name |-> "rat"]>>, <<>>}

\* the annotation numbered by its place in the output, from 1
BBoxAnnotationsFresh(list, ann) ==
    IF ~ann.keypoints.has \/ ann.keypoints.v = <<>> THEN list
    ELSE list \o keypoints_to_bboxes(ann.keypoints.v, ann.image_id, ann.category_id,
                                     Len(list) + 1)

\* lines 108-113: bbox_annotations after one annotation of the input
BBoxAnnotationsAfter(list, ann) ==
    IF ~ann.keypoints.has \/ ann.keypoints.v = <<>> THEN list
    ELSE list \o keypoints_to_bboxes(ann.keypoints.v, ann.image_id, ann.category_id,
                                     ann.id.v)

\* a call on the CVAT client and whether it returned (ok) or raised
Call(op, format_name, ok) == [op |-> op, format_name |-> format_name, ok |-> ok]

AutoUnchanged == UNCHANGED <<prog, convVars, mergeVars, bboxVars, kpVars>>

\* lines 152-155: --folder is a video and video_to_frames raises IOError
AutoVideoError ==
    /\ prog = "auto" /\ pc = "start"
    /\ pc' = "error"
    /\ UNCHANGED autoVars
    /\ AutoUnchanged

\* lines 162-169: the input is XML and is imported as it is
AutoInputXml ==
    /\ prog = "auto" /\ pc = "start"
    /\ Lower(input_ext) = ".xml"
    /\ import_format' = "CVAT 1.1"
    /\ pc' = "client"
    /\ UNCHANGED <<input_ext, kj_annotations, bbox_annotations, coco_bbox, image_paths, calls>>
    /\ AutoUnchanged

\* lines 170-172 and 103-106: the input is loaded as a keypoints JSON
AutoInputJson ==
    /\ prog = "auto" /\ pc = "start"
    /\ Lower(input_ext) # ".xml"
    /\ pc' = "convert"
    /\ UNCHANGED autoVars
    /\ AutoUnchanged

\* lines 103-104: the file does not open or is no JSON
AutoInputError ==
    /\ prog = "auto" /\ pc = "start"
    /\ Lower(input_ext) # ".xml"
    /\ pc' = "error"
    /\ UNCHANGED autoVars
    /\ AutoUnchanged

\* one pass of the loop at lines 107-113
AutoAnn ==
    /\ prog = "auto" /\ pc = "convert"
    /\ Len(kj_annotations) < MaxAnns
    /\ \E ann \in KjAnns :
          /\ kj_annotations' = Append(kj_annotations, ann)
          /\ bbox_annotations' = BBoxAnnotationsAfter(bbox_annotations, ann)
    /\ UNCHANGED <<pc, input_ext, coco_bbox, import_format, image_paths, calls>>
    /\ AutoUnchanged

\* line 111 on an annotation with keypoints and no id: KeyError
AutoAnnKeyError ==
    /\ prog = "auto" /\ pc = "convert"
    /\ Len(kj_annotations) < MaxAnns
    /\ KjAnnNoId.keypoints.has /\ ~KjAnnNoId.id.has
    /\ pc' = "error"
    /\ UNCHANGED autoVars
    /\ AutoUnchanged

\* lines 116-117: ValueError("No categories found in the keypoints JSON.")
AutoNoCategories ==
    /\ prog = "auto" /\ pc = "convert"
    /\ <<>> \in KjCategories
    /\ pc' = "error"
    /\ UNCHANGED autoVars
    /\ AutoUnchanged

\* lines 119-131 and 173-178: the dict is built and dumped to the temporary file
AutoWriteTemp ==
    /\ prog = "auto" /\ pc = "convert"
    /\ \E categories \in KjCategories :
          /\ categories # <<>>
          /\ coco_bbox' = [written |-> TRUE, category |-> <<categories[1]>>,
                           annotations |-> bbox_annotations]
    /\ import_format' = "COCO 1.0"
    /\ pc' = "client"
    /\ UNCHANGED <<input_ext, kj_annotations, bbox_annotations, image_paths, calls>>
    /\ AutoUnchanged

\* line 182: make_client returns (ok) or raises; lines 183-187 list the folder
AutoMakeClient ==
    /\ prog = "auto" /\ pc = "client"
    /\ \E ok \in BOOLEAN :
          /\ calls' = Append(calls, Call("make_client", "", ok))
          /\ IF ok THEN \E listing \in FolderListings :
                          /\ image_paths' = ImagePaths(listing)
                          /\ pc' = "listed"
             ELSE image_paths' = image_paths /\ pc' = "error"
    /\ UNCHANGED <<input_ext, kj_annotations, bbox_annotations, coco_bbox, import_format>>
    /\ AutoUnchanged

\* lines 189-190: RuntimeError("No images found in ...")
AutoNoImages ==
    /\ prog = "auto" /\ pc = "listed"
    /\ image_paths = <<>>
    /\ pc' = "error"
    /\ UNCHANGED autoVars
    /\ AutoUnchanged

\* a failure of create_from_data is caught and the import goes ahead
AutoCreateTaskCaught ==
    /\ prog = "auto" /\ pc = "listed"
    /\ image_paths # <<>>
    /\ \E ok \in BOOLEAN :
          calls' = Append(calls, Call("create_from_data", "", ok))
    /\ pc' = "created"
    /\ UNCHANGED <<input_ext, kj_annotations, bbox_annotations, coco_bbox,
                   import_format, image_paths>>
    /\ AutoUnchanged

\* lines 192-197: create_from_data returns the task (ok) or raises
AutoCreateTask ==
    /\ prog = "auto" /\ pc = "listed"
    /\ image_paths # <<>>
    /\ \E ok \in BOOLEAN :
          /\ calls' = Append(calls, Call("create_from_data", "", ok))
          /\ pc' = IF ok THEN "created" ELSE "error"
    /\ UNCHANGED <<input_ext, kj_annotations, bbox_annotations, coco_bbox,
                   import_format, image_paths>>
    /\ AutoUnchanged

\* lines 199-204: import_annotations returns (ok) or raises
AutoImport ==
    /\ prog = "auto" /\ pc = "created"
    /\ \E ok \in BOOLEAN :
          /\ calls' = Append(calls, Call("import_annotations", import_format, ok))
          /\ pc' = IF ok THEN "done" ELSE "error"
    /\ UNCHANGED <<input_ext, kj_annotations, bbox_annotations, coco_bbox,
                   import_format, image_paths>>
    /\ AutoUnchanged

InitAuto ==
    /\ prog = "auto" /\ pc = "start"
    /\ input_ext \in InputExts
    /\ kj_annotations = <<>> /\ bbox_annotations = <<>> /\ coco_bbox = NoCocoBBox
    /\ import_format = "" /\ image_paths = <<>> /\ calls = <<>>
    /\ ConvIdle /\ MergeIdle /\ BBoxIdle /\ KpIdle

NextAuto ==
    \/ AutoVideoError \/ AutoInputXml \/ AutoInputJson \/ AutoInputError
    \/ AutoAnn \/ AutoAnnKeyError \/ AutoNoCategories \/ AutoWriteTemp
    \/ AutoMakeClient \/ AutoNoImages \/ AutoCreateTask \/ AutoImport

\* auto_kpts_bbox.main
SpecAuto == InitAuto /\ [][NextAuto]_vars

-----------------------------------------------------------------------------
(* C16: the ids of the bbox annotations built from a keypoints JSON *)

\* the input annotations that get a box: keypoints present, not empty, and with
\* a visible point
RetainedForBox(anns) ==
    SelectSeq(anns, LAMBDA ann :
        /\ ann.keypoints.has /\ ann.keypoints.v # <<>>
        /\ keypoints_to_bboxes(ann.keypoints.v, ann.image_id, ann.category_id, ann.id.v) # <<>>)

\* C16 as stated: the annotations list built by
\* build_coco_bbox_from_keypoints_json has ids base, base + 1, base + 2, ... in
\* emission order, so the ids are pairwise distinct whatever ids the input
\* carries.
C16_FreshSequentialIds ==
    coco_bbox.written =>
        /\ \A n \in 1..Len(coco_bbox.annotations) :
              coco_bbox.annotations[n].id = coco_bbox.annotations[1].id + (n - 1)
        /\ \A m, n \in 1..Len(coco_bbox.annotations) :
              m # n => coco_bbox.annotations[m].id # coco_bbox.annotations[n].id

\* C16 amended: the annotations list has one entry per input annotation that has
\* keypoints with a visible point, in input order, and each entry's id is the id
\* of the input annotation it was built from.
C16_IdsCopied ==
    LET kept == RetainedForBox(kj_annotations)
        CopiesIds(out) ==
            /\ Len(out) = Len(kept)
            /\ \A n \in 1..Len(out) : out[n].id = kept[n].id.v
    IN  /\ prog = "auto" => CopiesIds(bbox_annotations)
        /\ coco_bbox.written => CopiesIds(coco_bbox.annotations)

\* two input annotations sharing id 5 were both given a box and written
C16_Witness ==
    /\ coco_bbox.written
    /\ Len(kj_annotations) = 2
    /\ Len(coco_bbox.annotations) = 2
    /\ coco_bbox.annotations[1].id = 5 /\ coco_bbox.annotations[2].id = 5

-----------------------------------------------------------------------------
(* C20: the calls main makes on the CVAT client *)

CallsOf(op) == {n \in 1..Len(calls) : calls[n].op = op}

-----------------------------------------------------------------------------
(* C17: the skeleton of the COCO header *)

\* some link of the metadata names an endpoint that is no keypoint name
MissingEndpoint(info) ==
    \E k \in DOMAIN info.skeleton_info : \E e \in 1..2 :
        \A q \in DOMAIN info.keypoint_info :
            info.keypoint_info[q] # info.skeleton_info[k][e]

\* C17: build_coco_header_from_metadata raises and returns no header whenever a
\* skeleton link names an endpoint that is no keypoint name; otherwise the
\* skeleton has one [start, end] pair per skeleton_info entry, in ascending key
\* order, each index being a 1-based position of the endpoint's name in the
\* key-ordered keypoint list.
C17_SkeletonEndpoints ==
    LET kkeys == SortedSeq(DOMAIN dataset_info.keypoint_info)
        skeys == SortedSeq(DOMAIN dataset_info.skeleton_info)
    IN  /\ (dataset_info.loaded /\ MissingEndpoint(dataset_info)) =>
              (~header.built /\ pc \in {"header", "error"})
        /\ (prog = "kp" /\ pc \in {"read", "rows", "write", "done"}) => header.built
        /\ header.built =>
              /\ ~MissingEndpoint(dataset_info)
              /\ Len(header.keypoints) = Len(kkeys)
              /\ \A n \in 1..Len(kkeys) :
                    header.keypoints[n] = dataset_info.keypoint_info[kkeys[n]]
              /\ Len(header.skeleton) = Len(skeys)
              /\ \A n \in 1..Len(skeys) : \A e \in 1..2 :
                    /\ header.skeleton[n][e] \in 1..Len(header.keypoints)
                    /\ header.keypoints[header.skeleton[n][e]] =
                          dataset_info.skeleton_info[skeys[n]][e]

\* the header of the metadata whose links are listed out of key order: link 2
\* (ear, paw) comes before link 5 (paw, ear)
C17_Witness ==
    /\ header.built
    /\ dataset_info = MetaB
    /\ header.skeleton = <<<<3, 2>>, <<2, 3>>>>

-----------------------------------------------------------------------------
(* C18: <original_size> in the XML of convert_json_bbox *)

\* the image record that parse_json keeps for a frame: the last one of the list
\* with that frame id
RecordsOfFrame(frame_id) == {n \in 1..Len(images) : ImageFrameId(images[n]) = frame_id}

\* the first frame seen has an image record that carries width and height
FirstFrameResolutionKnown ==
    /\ frames_seen # {}
    /\ LET recs == RecordsOfFrame(FramesSorted(frames_seen)[1])
       IN  /\ recs # {}
           /\ images[SetMax(recs)].width.has
           /\ images[SetMax(recs)].height.has

\* no image record carries a width and a height
NoResolutionKnown ==
    \A n \in 1..Len(images) : ~images[n].width.has \/ ~images[n].height.has

\* C18 as stated: <original_size> is emitted, once, if and only if the frame
\* resolution is known: for CSV input exactly when --video is given; for JSON
\* input it is emitted when the first frame's image record carries width and
\* height, omitted when no image record does or no annotation names a frame with
\* a record, and an emitted width and height are those of an image record, never
\* a made-up 0.
C18_OriginalSizeIffKnown ==
    (pc = "done" /\ prog \in {"csv", "json"}) =>
        /\ Len(xml.original_size) <= 1
        /\ prog = "csv" =>
              /\ Len(xml.original_size) = 1 <=> video.given
              /\ video.given =>
                    xml.original_size[1] = [width |-> video.width, height |-> video.height]
        /\ prog = "json" =>
              /\ FirstFrameResolutionKnown => Len(xml.original_size) = 1
              /\ NoResolutionKnown => Len(xml.original_size) = 0
              /\ (\A f \in frames_seen : RecordsOfFrame(f) = {})
                    => Len(xml.original_size) = 0
              /\ \A n \in 1..Len(xml.original_size) :
                    \E m \in 1..Len(images) :
                        /\ images[m].width.has /\ images[m].height.has
                        /\ xml.original_size[n] =
                              [width |-> images[m].width.v, height |-> images[m].height.v]

-----------------------------------------------------------------------------
(* C19: rows of a box-mode CSV (cx, cy, w, h columns) *)

\* the corner box of the cells <<cx, cy, w, h>>
CenterSizeToCorners(box) ==
    <<box[1] - box[3] \div 2, box[2] - box[4] \div 2,
      box[1] + box[3] \div 2, box[2] + box[4] \div 2>>

\* the corner box held to the frame bounds
ClampTo(v, hi) == IF v < 0 THEN 0 ELSE Min(v, hi)
Clamp(corners, width, height) ==
    <<ClampTo(corners[1], width), ClampTo(corners[2], height),
      ClampTo(corners[3], width), ClampTo(corners[4], height)>>

\* the numbers stored under a key of data
NumbersOf(pts) == {pts[j][c] : j \in 1..Len(pts), c \in 1..3}

\* C19 as stated: a box-mode row with cells cx, cy, w, h is read into the corner
\* box (cx - w/2, cy - h/2, cx + w/2, cy + h/2) for its (frame_id, instance_id):
\* the four corner values, (8, 9, 12, 11) for cells (10, 10, 4, 2), are stored
\* under that key, and held to the frame bounds when these are known.
C19_CenterSizeCorners ==
    prog = "csv" =>
        \A n \in 1..Len(rows) :
            rows[n].box # <<>> =>
                LET corners == CenterSizeToCorners(rows[n].box)
                    stored == IF video.given
                              THEN Clamp(corners, video.width * Unit, video.height * Unit)
                              ELSE corners
                IN  /\ corners = <<8 * Unit, 9 * Unit, 12 * Unit, 11 * Unit>>
                    /\ <<rows[n].frame_id, rows[n].instance_id>> \in DataKeys
                    /\ {stored[e] : e \in 1..4}
                          \subseteq NumbersOf(data[rows[n].frame_id][rows[n].instance_id])

\* C19 amended: parse_csv has no box mode; it never reads cx, cy, w, h, and a
\* row of a file with those columns and no keypoint columns is stored under its
\* (frame_id, instance_id) as keypoint_count triples (0, 0, 0), which the XML
\* carries as points at the origin.
C19_BoxRowReadsAsZeros ==
    (prog = "csv" /\ headers.ids /\ headers.nk = 0) =>
        /\ \A n \in 1..Len(rows) :
              /\ rows[n].box = BoxCells
              /\ <<rows[n].frame_id, rows[n].instance_id>> \in DataKeys
        /\ \A key \in DataKeys : data[key[1]][key[2]] = ZeroPts(keypoint_count)
        /\ pc = "done" =>
              \A t \in 1..Len(xml.tracks) : \A p \in 1..Len(xml.tracks[t].points) :
                  xml.tracks[t].points[p].points = [j \in 1..keypoint_count |-> <<0, 0>>]

\* a box-mode row of frame 0 was read and the XML written
C19_Witness ==
    /\ prog = "csv" /\ pc = "done"
    /\ headers.nk = 0
    /\ \E n \in 1..Len(rows) : rows[n].box = BoxCells /\ rows[n].frame_id = 0
    /\ Len(xml.tracks) >= 1

-----------------------------------------------------------------------------
(* C21: the <points> of a <track> written by convert_to_cvat_xml *)

\* the annotations convert_to_cvat_xml was called on
XmlInput == original.annotations.v

\* C21 as stated: each <track> lists its <points> with strictly increasing frame
\* attribute, also when two annotations share track_id and image_id; there is
\* one track per distinct track_id; and a track has no element for a frame in
\* which it has no annotation.
C21_StrictKeyframeOrder ==
    (prog = "kp" /\ output.format = "xml") =>
        /\ \A t \in 1..Len(output.tracks) :
              \A m, n \in 1..Len(output.tracks[t].points) :
                  m < n => output.tracks[t].points[m].frame < output.tracks[t].points[n].frame
        /\ \A s, t \in 1..Len(output.tracks) :
              s # t => output.tracks[s].id # output.tracks[t].id
        /\ {output.tracks[t].id : t \in 1..Len(output.tracks)}
              = {XmlInput[n].track_id.v : n \in 1..Len(XmlInput)}
        /\ \A t \in 1..Len(output.tracks) : \A p \in 1..Len(output.tracks[t].points) :
              \E n \in 1..Len(XmlInput) :
                  /\ XmlInput[n].track_id.v = output.tracks[t].id
                  /\ XmlInput[n].image_id = output.tracks[t].points[p].frame

-----------------------------------------------------------------------------
(* C22: the category ids of the COCO bbox output *)

\* C22 as stated: the output of build_coco_bbox_from_keypoints_json has a single
\* category, the first of the input, and every annotation of the output has that
\* category's id as its category_id, also when the input annotations use several
\* category ids.
C22_CategoryIntegrity ==
    coco_bbox.written =>
        /\ Len(coco_bbox.category) = 1
        /\ \A n \in 1..Len(coco_bbox.annotations) :
              coco_bbox.annotations[n].category_id = coco_bbox.category[1].id

-----------------------------------------------------------------------------
(* C23: classes_by_instance and overwritten geometry *)

\* C23: after parse_csv or parse_json, classes_by_instance has one entry per
\* resolved instance id, and the entry of i is exactly the set of class ids of
\* all rows (annotations) of instance i, those whose geometry a later row with
\* the same (frame, instance) key overwrote included; build_cvat_xml labels a
\* track from that set.
C23_ClassesOutliveGeometry ==
    (prog \in {"csv", "json"} /\ pc # "error") =>
        /\ DOMAIN classes_by_instance = {Obs(n).instance : n \in 1..NObs}
        /\ \A i \in DOMAIN classes_by_instance : classes_by_instance[i] = ClassesOf(i)
        /\ pc = "done" =>
              \A t \in Tracks :
                  /\ t.id \in DOMAIN classes_by_instance
                  /\ t.label = NameOf(SetMin(classes_by_instance[t.id]))

\* two rows with one key: the first, of class 0, lost its geometry to the
\* second, of class 1, and the track is labelled with class 0
C23_Witness ==
    /\ pc = "done" /\ NObs = 2 /\ classes = <<"cat", "dog">>
    /\ Obs(1).frame = Obs(2).frame /\ Obs(1).instance = Obs(2).instance
    /\ Obs(1).class = 0 /\ Obs(2).class = 1
    /\ Obs(1).pts # Obs(2).pts
    /\ data[Obs(1).frame][Obs(1).instance] = Obs(2).pts
    /\ classes_by_instance[Obs(1).instance] = {0, 1}
    /\ \E t \in Tracks : t.id = Obs(1).instance /\ t.label = "cat"

====
